---- MODULE Spec2Model ----
(***************************************************************************)
(* Model of the IR core of the compiler: the ir_func_t / ir_code_t /       *)
(* ir_var_t / ir_insn_t object graph of ir.c with its builders, deleters,  *)
(* flow recomputation and SSA conversion, and the optimizer of opt.c.      *)
(*                                                                         *)
(* Objects live in three heaps (var, code, insn) keyed by allocation id.   *)
(* free() removes the id from the heap's domain; a pointer to a freed      *)
(* object is an id outside the domain.  Dereferencing such a pointer, or a *)
(* NULL pointer, is undefined behaviour: the build may produce any outcome *)
(* (in practice SIGSEGV or a corrupted heap), and the model stops          *)
(* following the run with status "ub".  abort() ends it with status        *)
(* "abort".  A loop that can never exit ends it with status "hang".        *)
(***************************************************************************)
EXTENDS Integers, Sequences, FiniteSets, TLC

VARIABLES func, var, code, insn, alloc, status, last, pre, ops

vars == <<func, var, code, insn, alloc, status, last, pre, ops>>

(***************************************************************************)
(* Bounds of the model.                                                    *)
(***************************************************************************)
\* Number of public operations performed after the function was built.
MaxOps == 2
\* Number of instructions a free builder call may still allocate.
MaxInsns == 2
\* Number of variables / code blocks a free builder call may allocate up to.
MaxVars == 3
MaxCodes == 3

(***************************************************************************)
(* Generic helpers.                                                        *)
(***************************************************************************)
NULL == 0

Max(S) == CHOOSE x \in S : \A y \in S : y <= x
Min(S) == CHOOSE x \in S : \A y \in S : x <= y

RECURSIVE SetToSeq(_)
\* Iteration order of set_foreach: ascending allocation id.
SetToSeq(S) == IF S = {} THEN <<>> ELSE <<Min(S)>> \o SetToSeq(S \ {Min(S)})

Range(s) == {s[i] : i \in 1..Len(s)}

\* dlist_remove: unlink one node from a list.
dlist_remove(list, x) == SelectSeq(list, LAMBDA y : y # x)

\* Remove a key from a heap (free).
Free(heap, id) == [x \in (DOMAIN heap) \ {id} |-> heap[x]]

\* array_remove: remove the element at index i of an array.
array_remove(arr, i) == [j \in 1..(Len(arr) - 1) |-> IF j < i THEN arr[j] ELSE arr[j + 1]]

(***************************************************************************)
(* Operands (ir_operand_t) and constants (ir_const_t).                     *)
(***************************************************************************)
Const(p, v) == [is_const |-> TRUE, prim_type |-> p, constl |-> v, var |-> NULL]
Var(x) == [is_const |-> FALSE, prim_type |-> "NONE", constl |-> 0, var |-> x]

\* Prim of an operand in state st (the builders' `x_prim` expressions).
operand_prim(st, o) == IF o.is_const THEN o.prim_type ELSE st.var[o.var].prim_type

(***************************************************************************)
(* The whole program state as one record, so that the C functions become   *)
(* operators from state to state.                                          *)
(***************************************************************************)
St == [func |-> func, var |-> var, code |-> code, insn |-> insn,
       alloc |-> alloc, status |-> status]

Ok(st) == st.status = "ok"
Crash(st) == [st EXCEPT !.status = "ub"]
Abort(st) == [st EXCEPT !.status = "abort"]
Hang(st) == [st EXCEPT !.status = "hang"]

LiveVar(st, v) == v \in DOMAIN st.var
LiveCode(st, c) == c \in DOMAIN st.code
LiveInsn(st, i) == i \in DOMAIN st.insn

\* Variables named by the operands of an instruction record.
OperandVars(rec) == {rec.ops[k].var : k \in {j \in 1..Len(rec.ops) : ~rec.ops[j].is_const}}

\* set_add(&v->used_at, i) for one variable.
use_add(st, v, i) == [st EXCEPT !.var[v].used_at = @ \cup {i}]
\* set_remove(&v->used_at, i) for one variable.
use_remove(st, v, i) == [st EXCEPT !.var[v].used_at = @ \ {i}]

RECURSIVE use_add_all(_, _, _)
\* set_add(&o.var->used_at, i) for every non-constant operand in a sequence.
use_add_all(st, os, i) ==
    IF os = <<>> THEN st
    ELSE IF Head(os).is_const THEN use_add_all(st, Tail(os), i)
    ELSE use_add_all(use_add(st, Head(os).var, i), Tail(os), i)

(***************************************************************************)
(* Creation of variables and code blocks.                                  *)
(***************************************************************************)
\* No name given (a NULL `name` argument).
NoName == ""

RECURSIVE Invoke(_, _)

\* ir_var_create: name is a string, or NoName for the decimal list length.
ir_var_create(st, type, name) ==
    LET id == st.alloc.var + 1
        rec == [name |-> IF name = NoName THEN ToString(Len(st.func.vars_list)) ELSE name,
                prim_type |-> type,
                assigned_at |-> <<>>,
                used_at |-> {}]
    IN [st EXCEPT !.var = (id :> rec) @@ @,
                  !.func.vars_list = Append(@, id),
                  !.alloc.var = id]

\* ir_code_create: name is a string, or NoName for the decimal list length.
ir_code_create(st, name) ==
    LET id == st.alloc.code + 1
        rec == [name |-> IF name = NoName THEN ToString(Len(st.func.code_list)) ELSE name,
                insns |-> <<>>,
                pred |-> {},
                succ |-> {}]
    IN [st EXCEPT !.code = (id :> rec) @@ @,
                  !.func.code_list = Append(@, id),
                  !.alloc.code = id]

RECURSIVE create_args(_, _)
create_args(st, names) ==
    IF names = <<>> THEN st
    ELSE LET s1 == ir_var_create(st, "S32", Head(names))
         IN create_args([s1 EXCEPT !.func.args = Append(@, s1.alloc.var)], Tail(names))

\* ir_func_create.
ir_func_create(name, entry_name, args_name) ==
    LET s0 == [func |-> [name |-> name, args |-> <<>>, entry |-> NULL,
                         code_list |-> <<>>, vars_list |-> <<>>, enforce_ssa |-> FALSE],
               var |-> <<>>, code |-> <<>>, insn |-> <<>>,
               alloc |-> [var |-> 0, code |-> 0, insn |-> 0],
               status |-> "ok"]
        s1 == create_args(s0, args_name)
        s2 == ir_code_create(s1, entry_name)
    IN [s2 EXCEPT !.func.entry = s2.alloc.code]

(***************************************************************************)
(* Instruction records.  `ops` holds the operand positions in order:       *)
(*   UNARY <<value>>, BINARY <<lhs, rhs>>, COMBINATOR the binds of `from`  *)
(*   (with `prev` the parallel array of from[i].prev), BRANCH <<cond>>,    *)
(*   RETURN <<>> or <<value>>, CALL_DIRECT the args, CALL_PTR <<addr>>     *)
(*   followed by the args.                                                 *)
(***************************************************************************)
Insn(parent, is_expr, type, dest, oper, os, prev, target) ==
    [parent |-> parent, is_expr |-> is_expr, type |-> type, dest |-> dest,
     oper |-> oper, ops |-> os, prev |-> prev, target |-> target]

IsJumpOrBranch(rec) == ~rec.is_expr /\ rec.type \in {"JUMP", "BRANCH"}

\* Variant of after_terminator that looks for a jump only.
after_terminator_jump_only(st, c) ==
    /\ st.code[c].insns # <<>>
    /\ ~st.insn[st.code[c].insns[Len(st.code[c].insns)]].is_expr
    /\ st.insn[st.code[c].insns[Len(st.code[c].insns)]].type = "JUMP"

\* The builders' check `last instruction is a jump or branch`.
after_terminator(st, c) ==
    /\ st.code[c].insns # <<>>
    /\ IsJumpOrBranch(st.insn[st.code[c].insns[Len(st.code[c].insns)]])

\* Allocate an instruction and dlist_append it to its parent's list.
insn_append(st, rec) ==
    LET id == st.alloc.insn + 1
    IN [st EXCEPT !.insn = (id :> rec) @@ @,
                  !.code[rec.parent].insns = Append(@, id),
                  !.alloc.insn = id]

\* Variant of expr_append without the SSA check.
expr_append_unchecked(st, rec) ==
    LET s1 == insn_append(st, rec)
        id == s1.alloc.insn
    IN use_add_all([s1 EXCEPT !.var[rec.dest].assigned_at = Append(@, id)], rec.ops, id)

\* Variant of expr_append that rejects a second assignment whatever the flag.
expr_append_always_ssa(st, rec) ==
    IF st.var[rec.dest].assigned_at # <<>> THEN Abort(st)
    ELSE expr_append_unchecked(st, rec)

\* The common tail of the expression builders: the SSA check, then both appends.
expr_append(st, rec) ==
    IF st.var[rec.dest].assigned_at # <<>> /\ st.func.enforce_ssa THEN Abort(st)
    ELSE LET s1 == insn_append(st, rec)
             id == s1.alloc.insn
         IN use_add_all([s1 EXCEPT !.var[rec.dest].assigned_at = Append(@, id)], rec.ops, id)

\* ir_add_combinator: `from` is a sequence of [prev, bind] records.
ir_add_combinator(st, c, dest, from) ==
    LET rec == Insn(c, TRUE, "COMBINATOR", dest, "NONE",
                    [k \in 1..Len(from) |-> from[k].bind],
                    [k \in 1..Len(from) |-> from[k].prev], NULL)
    IN IF after_terminator(st, c) THEN Abort(st)
       ELSE IF st.var[dest].assigned_at # <<>> /\ st.func.enforce_ssa THEN Abort(st)
       ELSE IF \E k \in 1..Len(from) :
                 operand_prim(st, from[k].bind) # st.var[dest].prim_type THEN Abort(st)
       ELSE Invoke("expr_append", <<st, rec>>)

\* ir_add_expr1.
ir_add_expr1(st, c, dest, oper, operand) ==
    LET rec == Insn(c, TRUE, "UNARY", dest, oper, <<operand>>, <<>>, NULL)
    IN IF after_terminator(st, c) THEN Abort(st)
       ELSE IF oper \in {"SNEZ", "SEQZ"} /\ st.var[dest].prim_type # "BOOL" THEN Abort(st)
       ELSE IF oper \notin {"SNEZ", "SEQZ", "MOV"}
               /\ operand_prim(st, operand) # st.var[dest].prim_type THEN Abort(st)
       ELSE Invoke("expr_append", <<st, rec>>)

\* ir_add_expr2.
ir_add_expr2(st, c, dest, oper, lhs, rhs) ==
    LET rec == Insn(c, TRUE, "BINARY", dest, oper, <<lhs, rhs>>, <<>>, NULL)
    IN IF after_terminator(st, c) THEN Abort(st)
       ELSE IF operand_prim(st, lhs) # st.var[dest].prim_type THEN Abort(st)
       ELSE IF operand_prim(st, rhs) # st.var[dest].prim_type THEN Abort(st)
       ELSE Invoke("expr_append", <<st, rec>>)

\* ir_add_undefined.
ir_add_undefined(st, c, dest) ==
    LET rec == Insn(c, TRUE, "UNDEFINED", dest, "NONE", <<>>, <<>>, NULL)
    IN IF after_terminator(st, c) THEN Abort(st)
       ELSE Invoke("expr_append", <<st, rec>>)

\* The common tail of the flow builders: register the operand uses, append.
flow_append(st, rec) ==
    LET s1 == insn_append(st, rec)
    IN use_add_all(s1, rec.ops, s1.alloc.insn)

\* ir_add_call_direct.
ir_add_call_direct(st, from, params) ==
    LET rec == Insn(from, FALSE, "CALL_DIRECT", NULL, "NONE", params, <<>>, NULL)
    IN IF after_terminator(st, from) THEN Abort(st)
       ELSE Invoke("flow_append", <<st, rec>>)

\* ir_add_call_ptr.
ir_add_call_ptr(st, from, funcptr, params) ==
    LET rec == Insn(from, FALSE, "CALL_PTR", NULL, "NONE", <<funcptr>> \o params, <<>>, NULL)
    IN IF after_terminator(st, from) THEN Abort(st)
       ELSE Invoke("flow_append", <<st, rec>>)

\* Variant of ir_add_jump that registers the successor but not the predecessor.
ir_add_jump_succ_only(st, from, to) ==
    LET rec == Insn(from, FALSE, "JUMP", NULL, "NONE", <<>>, <<>>, to)
        s1 == [st EXCEPT !.code[from].succ = @ \cup {to}]
    IN insn_append(s1, rec)

\* ir_add_jump.
ir_add_jump(st, from, to) ==
    LET rec == Insn(from, FALSE, "JUMP", NULL, "NONE", <<>>, <<>>, to)
        s1 == [st EXCEPT !.code[from].succ = @ \cup {to}]
        s2 == [s1 EXCEPT !.code[to].pred = @ \cup {from}]
    IN insn_append(s2, rec)

\* ir_add_branch.
ir_add_branch(st, from, cond, to) ==
    LET rec == Insn(from, FALSE, "BRANCH", NULL, "NONE", <<cond>>, <<>>, to)
        s1 == [st EXCEPT !.code[from].succ = @ \cup {to}]
        s2 == [s1 EXCEPT !.code[to].pred = @ \cup {from}]
    IN IF operand_prim(st, cond) # "BOOL" THEN Abort(st)
       ELSE Invoke("flow_append", <<s2, rec>>)

\* ir_add_return0.
ir_add_return0(st, from) ==
    LET rec == Insn(from, FALSE, "RETURN", NULL, "NONE", <<>>, <<>>, NULL)
    IN IF after_terminator(st, from) THEN Abort(st)
       ELSE Invoke("flow_append", <<st, rec>>)

\* ir_add_return1.
ir_add_return1(st, from, value) ==
    LET rec == Insn(from, FALSE, "RETURN", NULL, "NONE", <<value>>, <<>>, NULL)
    IN IF after_terminator(st, from) THEN Abort(st)
       ELSE Invoke("flow_append", <<st, rec>>)

(***************************************************************************)
(* Deletion and replacement.                                               *)
(***************************************************************************)
RECURSIVE use_remove_all(_, _, _)
\* set_remove(&o.var->used_at, i) for every non-constant operand in a sequence.
\* Writing to the use-set of a freed variable is undefined behaviour.
use_remove_all(st, os, i) ==
    IF os = <<>> \/ ~Ok(st) THEN st
    ELSE IF Head(os).is_const THEN use_remove_all(st, Tail(os), i)
    ELSE IF ~LiveVar(st, Head(os).var) THEN Crash(st)
    ELSE use_remove_all(use_remove(st, Head(os).var, i), Tail(os), i)

\* The use-set updates of ir_insn_delete, by instruction kind.
insn_delete_uses(st, i) ==
    LET rec == st.insn[i]
    IN CASE rec.type \in {"UNARY", "BINARY", "COMBINATOR", "BRANCH", "RETURN", "CALL_DIRECT"} ->
                use_remove_all(st, rec.ops, i)
         [] rec.type = "CALL_PTR" ->
                \* `else if (addr.is_const)` reads addr.var of a constant operand:
                \* the pointer is the bytes of the constant.  A variable address is
                \* left in the use-set.
                IF rec.ops[1].is_const THEN Crash(st)
                ELSE use_remove_all(st, Tail(rec.ops), i)
         [] OTHER -> st

\* Variant of ir_insn_delete that leaves an expression in its destination's
\* assignment list.
ir_insn_delete_keeps_assignment(st, i) ==
    IF ~Ok(st) THEN st
    ELSE IF i = NULL \/ ~LiveInsn(st, i) THEN Crash(st)
    ELSE LET rec == st.insn[i]
             s2 == insn_delete_uses(st, i)
         IN IF ~Ok(s2) THEN s2
            ELSE IF ~LiveCode(s2, rec.parent) THEN Crash(s2)
            ELSE [s2 EXCEPT !.code[rec.parent].insns = dlist_remove(@, i),
                            !.insn = Free(@, i)]

\* ir_insn_delete.
ir_insn_delete(st, i) ==
    IF ~Ok(st) THEN st
    ELSE IF i = NULL \/ ~LiveInsn(st, i) THEN Crash(st)
    ELSE LET rec == st.insn[i]
             s1 == IF rec.is_expr
                   THEN IF ~LiveVar(st, rec.dest) THEN Crash(st)
                        ELSE [st EXCEPT !.var[rec.dest].assigned_at = dlist_remove(@, i)]
                   ELSE st
             s2 == IF Ok(s1) THEN Invoke("insn_delete_uses", <<s1, i>>) ELSE s1
         IN IF ~Ok(s2) THEN s2
            ELSE IF ~LiveCode(s2, rec.parent) THEN Crash(s2)
            ELSE [s2 EXCEPT !.code[rec.parent].insns = dlist_remove(@, i),
                            !.insn = Free(@, i)]

RECURSIVE insn_delete_seq(_, _)
\* ir_insn_delete on each instruction of a sequence, in order.
insn_delete_seq(st, is) ==
    IF is = <<>> \/ ~Ok(st) THEN st
    ELSE insn_delete_seq(Invoke("ir_insn_delete", <<st, Head(is)>>), Tail(is))

\* ir_var_delete.
ir_var_delete(st, v) ==
    IF ~Ok(st) THEN st
    ELSE IF ~LiveVar(st, v) THEN Crash(st)
    ELSE LET to_delete == st.var[v].used_at \cup Range(st.var[v].assigned_at)
             s1 == Invoke("insn_delete_seq", <<st, SetToSeq(to_delete)>>)
         IN IF ~Ok(s1) THEN s1
            ELSE [s1 EXCEPT !.func.vars_list = dlist_remove(@, v),
                            !.var = Free(@, v)]

\* The operand positions of instruction record rec that ir_var_replace rewrites.
replace_positions(rec, v) ==
    LET names(k) == ~rec.ops[k].is_const /\ rec.ops[k].var = v
        all == 1..Len(rec.ops)
    IN CASE rec.type = "UNARY" -> all
         [] rec.type \in {"BINARY", "COMBINATOR", "BRANCH"} -> {k \in all : names(k)}
         [] rec.type = "CALL_DIRECT" -> {k \in all : ~rec.ops[k].is_const}
         [] rec.type = "CALL_PTR" ->
                {k \in all : IF k = 1 THEN names(k) ELSE ~rec.ops[k].is_const}
         [] rec.type = "RETURN" -> {k \in all : ~rec.ops[k].is_const}
         [] OTHER -> {}

RECURSIVE var_replace_seq(_, _, _, _)
\* The set_foreach over var->used_at of ir_var_replace.
var_replace_seq(st, is, v, value) ==
    IF is = <<>> \/ ~Ok(st) THEN st
    ELSE LET i == Head(is)
         IN IF ~LiveInsn(st, i) THEN Crash(st)
            ELSE LET rec == st.insn[i]
                     pos == replace_positions(rec, v)
                     s1 == [st EXCEPT !.insn[i].ops =
                               [k \in 1..Len(rec.ops) |-> IF k \in pos THEN value ELSE rec.ops[k]]]
                     s2 == IF pos # {} /\ ~value.is_const
                           THEN IF ~LiveVar(s1, value.var) THEN Crash(s1)
                                ELSE use_add(s1, value.var, i)
                           ELSE s1
                 IN var_replace_seq(s2, Tail(is), v, value)

\* ir_var_replace without the test for a replacement by itself.
ir_var_replace_no_self_test(st, v, value) ==
    IF ~Ok(st) THEN st
    ELSE IF ~LiveVar(st, v) THEN Crash(st)
    ELSE LET s1 == Invoke("var_replace_seq", <<st, SetToSeq(st.var[v].used_at), v, value>>)
         IN IF ~Ok(s1) THEN s1
            ELSE [s1 EXCEPT !.var[v].used_at = {}]

\* ir_var_replace.
ir_var_replace(st, v, value) ==
    IF ~Ok(st) THEN st
    ELSE IF ~LiveVar(st, v) THEN Crash(st)
    ELSE IF ~value.is_const /\ value.var = v THEN Abort(st)
    ELSE LET s1 == Invoke("var_replace_seq", <<st, SetToSeq(st.var[v].used_at), v, value>>)
         IN IF ~Ok(s1) THEN s1
            ELSE [s1 EXCEPT !.var[v].used_at = {}]

\* remove_combinator_path without the replacement of the destination's reads.
remove_combinator_path_no_replace(st, e, c) ==
    IF ~Ok(st) THEN st
    ELSE LET rec == st.insn[e]
             hit == {k \in 1..Len(rec.prev) : rec.prev[k] = c}
             i == IF hit = {} THEN 0 ELSE Min(hit)
             s1 == IF i = 0 THEN st
                   ELSE LET s0 == IF rec.ops[i].is_const THEN st
                                  ELSE IF ~LiveVar(st, rec.ops[i].var) THEN Crash(st)
                                  ELSE use_remove(st, rec.ops[i].var, e)
                        IN [s0 EXCEPT !.insn[e].ops = array_remove(rec.ops, i),
                                      !.insn[e].prev = array_remove(rec.prev, i)]
         IN IF ~Ok(s1) THEN s1
            ELSE IF Len(s1.insn[e].ops) = 1
            THEN Invoke("ir_insn_delete", <<s1, e>>)
            ELSE s1

\* remove_combinator_path.
remove_combinator_path(st, e, c) ==
    IF ~Ok(st) THEN st
    ELSE LET rec == st.insn[e]
             hit == {k \in 1..Len(rec.prev) : rec.prev[k] = c}
             i == IF hit = {} THEN 0 ELSE Min(hit)
             s1 == IF i = 0 THEN st
                   ELSE LET s0 == IF rec.ops[i].is_const THEN st
                                  ELSE IF ~LiveVar(st, rec.ops[i].var) THEN Crash(st)
                                  ELSE use_remove(st, rec.ops[i].var, e)
                        IN [s0 EXCEPT !.insn[e].ops = array_remove(rec.ops, i),
                                      !.insn[e].prev = array_remove(rec.prev, i)]
         IN IF ~Ok(s1) THEN s1
            ELSE IF Len(s1.insn[e].ops) = 1
            THEN Invoke("ir_insn_delete", <<Invoke("ir_var_replace", <<s1, rec.dest, s1.insn[e].ops[1]>>), e>>)
            ELSE s1

RECURSIVE delete_jumps_to(_, _, _)
\* ir_code_delete: delete the jumps and branches of a predecessor that target c.
delete_jumps_to(st, is, c) ==
    IF is = <<>> \/ ~Ok(st) THEN st
    ELSE LET rec == st.insn[Head(is)]
         IN delete_jumps_to(IF IsJumpOrBranch(rec) /\ rec.target = c
                            THEN Invoke("ir_insn_delete", <<st, Head(is)>>) ELSE st,
                            Tail(is), c)

RECURSIVE code_delete_preds(_, _, _)
\* ir_code_delete: the set_foreach over code->pred.
code_delete_preds(st, ps, c) ==
    IF ps = <<>> \/ ~Ok(st) THEN st
    ELSE LET p == Head(ps)
         IN IF ~LiveCode(st, p) THEN Crash(st)
            ELSE LET s1 == [st EXCEPT !.code[p].succ = @ \ {c}]
                 IN code_delete_preds(Invoke("delete_jumps_to", <<s1, s1.code[p].insns, c>>), Tail(ps), c)

RECURSIVE update_phis(_, _, _)
\* ir_code_delete: remove_combinator_path on every combinator of a successor.
update_phis(st, is, c) ==
    IF is = <<>> \/ ~Ok(st) THEN st
    ELSE LET rec == st.insn[Head(is)]
         IN update_phis(IF rec.is_expr /\ rec.type = "COMBINATOR"
                        THEN Invoke("remove_combinator_path", <<st, Head(is), c>>) ELSE st,
                        Tail(is), c)

RECURSIVE code_delete_succs(_, _, _)
\* ir_code_delete: the set_foreach over code->succ.
code_delete_succs(st, ss, c) ==
    IF ss = <<>> \/ ~Ok(st) THEN st
    ELSE LET s == Head(ss)
         IN IF ~LiveCode(st, s) THEN Crash(st)
            ELSE LET s1 == [st EXCEPT !.code[s].pred = @ \ {c}]
                 IN code_delete_succs(Invoke("update_phis", <<s1, s1.code[s].insns, c>>), Tail(ss), c)

RECURSIVE delete_all_insns(_, _)
\* ir_code_delete: `while (code->insns.len) ir_insn_delete(head)`.
delete_all_insns(st, c) ==
    IF ~Ok(st) \/ st.code[c].insns = <<>> THEN st
    ELSE delete_all_insns(Invoke("ir_insn_delete", <<st, Head(st.code[c].insns)>>), c)

\* ir_code_delete.
ir_code_delete(st, c) ==
    IF ~Ok(st) THEN st
    ELSE IF c = NULL \/ ~LiveCode(st, c) THEN Crash(st)
    ELSE LET s1 == Invoke("code_delete_preds", <<st, SetToSeq(st.code[c].pred), c>>)
             s2 == IF Ok(s1) THEN Invoke("code_delete_succs", <<s1, SetToSeq(s1.code[c].succ), c>>) ELSE s1
             s3 == IF Ok(s2) THEN Invoke("delete_all_insns", <<s2, c>>) ELSE s2
         IN IF ~Ok(s3) THEN s3
            ELSE [s3 EXCEPT !.func.code_list = dlist_remove(@, c),
                            !.code = Free(@, c)]

(***************************************************************************)
(* Flow recomputation.                                                     *)
(***************************************************************************)
RECURSIVE recalc_insns(_, _, _)
\* ir_func_recalc_flow: the instruction walk of one block.
recalc_insns(st, c, is) ==
    IF is = <<>> \/ ~Ok(st) THEN st
    ELSE LET rec == st.insn[Head(is)]
         IN IF ~IsJumpOrBranch(rec) THEN recalc_insns(st, c, Tail(is))
            ELSE IF ~LiveCode(st, rec.target) THEN Crash(st)
            ELSE recalc_insns([st EXCEPT !.code[rec.target].pred = @ \cup {c},
                                         !.code[c].succ = @ \cup {rec.target}],
                              c, Tail(is))

RECURSIVE recalc_codes(_, _)
recalc_codes(st, cs) ==
    IF cs = <<>> \/ ~Ok(st) THEN st
    ELSE recalc_codes(Invoke("recalc_insns", <<st, Head(cs), st.code[Head(cs)].insns>>), Tail(cs))

\* ir_func_recalc_flow without the loop that clears the sets.
ir_func_recalc_flow_no_clear(st) ==
    IF ~Ok(st) THEN st
    ELSE Invoke("recalc_codes", <<st, st.func.code_list>>)

\* ir_func_recalc_flow that rebuilds the predecessor sets from the successor
\* sets it found instead of from the instructions.
ir_func_recalc_flow_pred_from_succ(st) ==
    IF ~Ok(st) THEN st
    ELSE LET s1 == [st EXCEPT !.code = [c \in DOMAIN st.code |->
                                           [st.code[c] EXCEPT !.pred = {}, !.succ = {}]]]
             s2 == recalc_codes(s1, s1.func.code_list)
         IN IF ~Ok(s2) THEN s2
            ELSE [s2 EXCEPT !.code = [c \in DOMAIN s2.code |->
                    [s2.code[c] EXCEPT !.pred = {p \in DOMAIN st.code : c \in st.code[p].succ}]]]

\* ir_func_recalc_flow.
ir_func_recalc_flow(st) ==
    IF ~Ok(st) THEN st
    ELSE LET s1 == [st EXCEPT !.code = [c \in DOMAIN st.code |->
                                           [st.code[c] EXCEPT !.pred = {}, !.succ = {}]]]
         IN Invoke("recalc_codes", <<s1, s1.func.code_list>>)

(***************************************************************************)
(* Constant evaluation (ir/interp.h): ir_cast, ir_calc1, ir_calc2.         *)
(***************************************************************************)
\* A constant's payload is held as the value of its low bits read as two's
\* complement (S32) or as 0/1 (BOOL), so that 32-bit wrap-around is computed
\* without leaving the 32-bit range.
MinS32 == -2147483647 - 1
MaxS32 == 2147483647

\* a + b modulo 2^32, in two's complement.
add_wrap(a, b) ==
    IF a > 0 /\ b > MaxS32 - a THEN (a + MinS32) + (b + MinS32)
    ELSE IF a < 0 /\ b < MinS32 - a THEN (a - MinS32) + (b - MinS32)
    ELSE a + b

\* -a modulo 2^32, in two's complement.
neg_wrap(a) == IF a = MinS32 THEN MinS32 ELSE -a

ir_cast(p, k) ==
    IF p = "BOOL" THEN Const("BOOL", IF k.constl # 0 THEN 1 ELSE 0)
    ELSE Const(p, k.constl)

ir_calc1(oper, k) ==
    CASE oper = "SEQZ" -> Const("BOOL", IF k.constl = 0 THEN 1 ELSE 0)
      [] oper = "SNEZ" -> Const("BOOL", IF k.constl # 0 THEN 1 ELSE 0)
      [] oper = "LNOT" -> Const("BOOL", IF k.constl = 0 THEN 1 ELSE 0)
      [] oper = "NEG" -> Const(k.prim_type,
                               IF k.prim_type = "BOOL" THEN k.constl ELSE neg_wrap(k.constl))
      [] oper = "BNEG" -> Const(k.prim_type,
                                IF k.prim_type = "BOOL" THEN 1 - k.constl
                                ELSE add_wrap(neg_wrap(k.constl), -1))
      [] OTHER -> k

ir_calc2(oper, a, b) ==
    CASE oper = "ADD" -> Const(a.prim_type,
                               IF a.prim_type = "BOOL" THEN (a.constl + b.constl) % 2
                               ELSE add_wrap(a.constl, b.constl))
      [] oper = "SUB" -> Const(a.prim_type,
                               IF a.prim_type = "BOOL" THEN (a.constl + b.constl) % 2
                               ELSE add_wrap(a.constl, add_wrap(neg_wrap(b.constl), 0)))
      [] OTHER -> a

(***************************************************************************)
(* Optimizer (opt.c).  A pass returns [st, ret].                           *)
(***************************************************************************)
RECURSIVE unused_vars_scan(_, _, _)
\* opt_unused_vars: one walk over func->vars_list.
unused_vars_scan(st, vs, deleted) ==
    IF vs = <<>> \/ ~Ok(st) THEN [st |-> st, ret |-> deleted]
    ELSE IF st.var[Head(vs)].used_at = {}
         THEN unused_vars_scan(Invoke("ir_var_delete", <<st, Head(vs)>>), Tail(vs), TRUE)
         ELSE unused_vars_scan(st, Tail(vs), deleted)

\* opt_unused_vars that scans the variable list once.
unused_vars_loop_once(st, deleted) ==
    Invoke("unused_vars_scan", <<st, st.func.vars_list, FALSE>>)

RECURSIVE unused_vars_loop(_, _)
unused_vars_loop(st, deleted) ==
    LET r == Invoke("unused_vars_scan", <<st, st.func.vars_list, FALSE>>)
    IN IF Ok(r.st) /\ r.ret THEN unused_vars_loop(r.st, TRUE)
       ELSE [st |-> r.st, ret |-> deleted \/ r.ret]

\* opt_unused_vars.
opt_unused_vars(st) == Invoke("unused_vars_loop", <<st, FALSE>>)

\* const_prop_expr.
const_prop_expr(st, e) ==
    LET rec == st.insn[e]
        fold(k) == [st |-> Invoke("ir_var_delete", <<Invoke("ir_var_replace", <<st, rec.dest, k>>), rec.dest>>),
                    ret |-> TRUE]
    IN IF rec.type = "UNARY" /\ rec.ops[1].is_const
       THEN IF rec.oper = "MOV"
            THEN fold(ir_cast(st.var[rec.dest].prim_type, rec.ops[1]))
            ELSE fold(ir_calc1(rec.oper, rec.ops[1]))
       ELSE IF rec.type = "BINARY" /\ rec.ops[1].is_const /\ rec.ops[2].is_const
       THEN fold(ir_calc2(rec.oper, rec.ops[1], rec.ops[2]))
       ELSE [st |-> st, ret |-> FALSE]

RECURSIVE const_prop_scan(_, _, _)
\* opt_const_prop: one walk over func->vars_list; `loop` accumulates.
const_prop_scan(st, vs, loop) ==
    IF vs = <<>> \/ ~Ok(st) THEN [st |-> st, ret |-> loop]
    ELSE IF Len(st.var[Head(vs)].assigned_at) # 1 THEN const_prop_scan(st, Tail(vs), loop)
    ELSE LET e == Head(st.var[Head(vs)].assigned_at)
         IN IF ~LiveInsn(st, e) THEN [st |-> Crash(st), ret |-> loop]
            ELSE LET r == Invoke("const_prop_expr", <<st, e>>)
                 IN const_prop_scan(r.st, Tail(vs), loop \/ r.ret)

RECURSIVE const_prop_loop(_, _)
const_prop_loop(st, propagated) ==
    LET r == Invoke("const_prop_scan", <<st, st.func.vars_list, FALSE>>)
    IN IF Ok(r.st) /\ r.ret THEN const_prop_loop(r.st, TRUE)
       ELSE [st |-> r.st, ret |-> propagated \/ r.ret]

\* opt_const_prop.
opt_const_prop(st) == Invoke("const_prop_loop", <<st, FALSE>>)

\* container_of(list.head, ...): NULL for an empty list.
list_head(list) == IF list = <<>> THEN NULL ELSE Head(list)
list_tail(list) == IF list = <<>> THEN NULL ELSE list[Len(list)]

RECURSIVE dead_code_dfs(_, _, _)
RECURSIVE dead_code_walk(_, _, _, _, _)
\* dead_code_dfs: the instruction walk of one block; `is` are the instructions
\* still to walk.  Returns [st, visited, ret].
dead_code_walk(st, visited, is, dead, changed) ==
    IF is = <<>> \/ ~Ok(st) THEN [st |-> st, visited |-> visited, ret |-> changed]
    ELSE IF ~LiveInsn(st, Head(is)) THEN [st |-> Crash(st), visited |-> visited, ret |-> changed]
    ELSE LET i == Head(is)
             rec == st.insn[i]
             follow(now_dead) ==
                 LET r == Invoke("dead_code_dfs", <<st, visited, rec.target>>)
                 IN dead_code_walk(r.st, r.visited, Tail(is), now_dead, changed \/ r.ret)
         IN IF dead THEN dead_code_walk(Invoke("ir_insn_delete", <<st, i>>), visited, Tail(is), TRUE, TRUE)
            ELSE IF rec.is_expr THEN dead_code_walk(st, visited, Tail(is), FALSE, changed)
            ELSE IF rec.type = "JUMP" THEN follow(TRUE)
            ELSE IF rec.type = "RETURN" THEN dead_code_walk(st, visited, Tail(is), TRUE, changed)
            ELSE IF rec.type = "BRANCH"
            THEN IF rec.ops[1].is_const
                 THEN IF rec.ops[1].constl % 2 = 1 THEN follow(TRUE)
                      ELSE dead_code_walk(Invoke("ir_insn_delete", <<st, i>>), visited, Tail(is), FALSE, changed)
                 ELSE follow(FALSE)
            ELSE dead_code_walk(st, visited, Tail(is), FALSE, changed)

\* dead_code_dfs: `visited` is the set of blocks whose visited flag is set.
dead_code_dfs(st, visited, c) ==
    IF ~Ok(st) THEN [st |-> st, visited |-> visited, ret |-> FALSE]
    ELSE IF c = NULL \/ ~LiveCode(st, c) THEN [st |-> Crash(st), visited |-> visited, ret |-> FALSE]
    ELSE IF c \in visited THEN [st |-> st, visited |-> visited, ret |-> FALSE]
    ELSE Invoke("dead_code_walk", <<st, visited \cup {c}, st.code[c].insns, FALSE, FALSE>>)

\* Variant of delete_unvisited that keeps the unreachable blocks.
delete_unvisited_none(st, cs, visited) == st

RECURSIVE delete_unvisited(_, _, _)
\* opt_dead_code: delete all unreachable code blocks.
delete_unvisited(st, cs, visited) ==
    IF cs = <<>> \/ ~Ok(st) THEN st
    ELSE delete_unvisited(IF Head(cs) \notin visited THEN Invoke("ir_code_delete", <<st, Head(cs)>>) ELSE st,
                          Tail(cs), visited)

RECURSIVE dead_code_loop(_, _)
dead_code_loop(st, changed) ==
    LET r == Invoke("dead_code_dfs", <<st, {}, list_head(st.func.code_list)>>)
        s2 == Invoke("delete_unvisited", <<r.st, r.st.func.code_list, r.visited>>)
        s3 == Invoke("ir_func_recalc_flow", <<s2>>)
    IN IF Ok(s3) /\ r.ret THEN dead_code_loop(s3, TRUE)
       ELSE [st |-> s3, ret |-> changed \/ r.ret]

\* opt_dead_code.
opt_dead_code(st) == Invoke("dead_code_loop", <<st, FALSE>>)

\* merge_code's reparenting loop that leaves the parents as they are.
reparent_none(st, is, first) == st

RECURSIVE reparent(_, _, _)
\* merge_code: insn->parent = first for every instruction of second.
reparent(st, is, first) ==
    IF is = <<>> THEN st
    ELSE reparent([st EXCEPT !.insn[Head(is)].parent = first], Tail(is), first)

RECURSIVE retarget_preds(_, _, _, _)
\* merge_code: second's successors get first as predecessor instead of second.
retarget_preds(st, ss, first, second) ==
    IF ss = <<>> \/ ~Ok(st) THEN st
    ELSE IF ~LiveCode(st, Head(ss)) THEN Crash(st)
    ELSE retarget_preds([st EXCEPT !.code[Head(ss)].pred = (@ \ {second}) \cup {first}],
                        Tail(ss), first, second)

\* merge_code.
merge_code(st, first, second) ==
    LET s1 == Invoke("ir_insn_delete", <<st, list_tail(st.code[first].insns)>>)
    IN IF ~Ok(s1) THEN s1
       ELSE LET moved == s1.code[second].insns
                s2 == Invoke("reparent", <<s1, moved, first>>)
                \* dlist_concat: second's list is appended to first's and emptied.
                s3 == [s2 EXCEPT !.code[first].insns = @ \o moved]
                s4 == [s3 EXCEPT !.code[second].insns = <<>>]
                s5 == retarget_preds(s4, SetToSeq(s4.code[second].succ), first, second)
            IN IF ~Ok(s5) THEN s5
               ELSE LET s6 == [s5 EXCEPT !.code[first].succ = {}]
                        s7 == [s6 EXCEPT !.code[second].pred = {}]
                        s8 == [s7 EXCEPT !.code[first].succ = s7.code[second].succ]
                        s9 == [s8 EXCEPT !.code[second].succ = {}]
                    IN Invoke("ir_code_delete", <<s9, second>>)

\* Variant of splice_loop that leaves a 1:1 link alone.
splice_loop_no_merge(st, c, changed) ==
    IF ~Ok(st) THEN [st |-> st, ret |-> changed]
    ELSE IF ~LiveCode(st, c) THEN [st |-> Crash(st), ret |-> changed]
    ELSE IF Cardinality(st.code[c].succ) # 1 THEN [st |-> st, ret |-> changed]
    ELSE LET succ == CHOOSE s \in st.code[c].succ : TRUE
         IN IF ~LiveCode(st, succ) THEN [st |-> Crash(st), ret |-> changed]
            ELSE IF Cardinality(st.code[succ].pred) = 1 THEN [st |-> st, ret |-> changed]
            ELSE [st |-> Hang(st), ret |-> changed]

RECURSIVE splice_loop(_, _, _)
\* branch_opt_dfs: `while (code->succ.len == 1)`.  Returns [st, ret].
splice_loop(st, c, changed) ==
    IF ~Ok(st) THEN [st |-> st, ret |-> changed]
    ELSE IF ~LiveCode(st, c) THEN [st |-> Crash(st), ret |-> changed]
    ELSE IF Cardinality(st.code[c].succ) # 1 THEN [st |-> st, ret |-> changed]
    ELSE LET succ == CHOOSE s \in st.code[c].succ : TRUE
         IN IF ~LiveCode(st, succ) THEN [st |-> Crash(st), ret |-> changed]
            ELSE IF Cardinality(st.code[succ].pred) = 1
            THEN splice_loop(Invoke("merge_code", <<st, c, succ>>), c, TRUE)
            \* Nothing in the loop body changes code->succ: the loop never exits.
            ELSE [st |-> Hang(st), ret |-> changed]

RECURSIVE branch_opt_dfs(_, _, _)
RECURSIVE branch_opt_succs(_, _, _, _, _)
\* branch_opt_dfs: the set_foreach over code->succ.  Returns [st, visited, ret].
branch_opt_succs(st, visited, c, ss, changed) ==
    IF ss = <<>> \/ ~Ok(st) THEN [st |-> st, visited |-> visited, ret |-> changed]
    ELSE LET r == Invoke("branch_opt_dfs", <<st, visited, Head(ss)>>)
         IN IF Ok(r.st) /\ ~LiveCode(r.st, c)
            THEN [st |-> Crash(r.st), visited |-> r.visited, ret |-> changed]
            ELSE branch_opt_succs(r.st, r.visited, c, Tail(ss), changed \/ r.ret)

\* branch_opt_dfs.
branch_opt_dfs(st, visited, c) ==
    IF ~Ok(st) THEN [st |-> st, visited |-> visited, ret |-> FALSE]
    ELSE IF c = NULL \/ ~LiveCode(st, c) THEN [st |-> Crash(st), visited |-> visited, ret |-> FALSE]
    ELSE IF c \in visited THEN [st |-> st, visited |-> visited, ret |-> FALSE]
    ELSE LET r == Invoke("splice_loop", <<st, c, FALSE>>)
         IN IF ~Ok(r.st) THEN [st |-> r.st, visited |-> visited, ret |-> r.ret]
            ELSE Invoke("branch_opt_succs", <<r.st, visited \cup {c}, c, SetToSeq(r.st.code[c].succ), r.ret>>)

\* opt_branches.
opt_branches(st) ==
    LET r == Invoke("branch_opt_dfs", <<st, {}, list_head(st.func.code_list)>>)
    IN [st |-> r.st, ret |-> r.ret]

RECURSIVE optimize_loop(_, _)
\* optimize: one iteration of the do-while per call.
optimize_loop(st, changed) ==
    LET r1 == Invoke("opt_unused_vars", <<st>>)
        r2 == Invoke("opt_const_prop", <<r1.st>>)
        r3 == Invoke("opt_dead_code", <<r2.st>>)
        r4 == Invoke("opt_branches", <<r3.st>>)
        loop == r1.ret \/ r2.ret \/ r3.ret \/ r4.ret
    IN IF Ok(r4.st) /\ loop THEN optimize_loop(r4.st, TRUE)
       ELSE [st |-> r4.st, ret |-> changed \/ loop]

\* optimize.
optimize(st) == Invoke("optimize_loop", <<st, FALSE>>)

(***************************************************************************)
(* Dominance (ir.c).  The dom_node_t array and the blocks' scratch fields  *)
(* are one record d: code, parent, ancestor, semi, idom, best, bucket,     *)
(* frontier and uses_var are indexed by node index 0..nodes_len-1;         *)
(* dfs_index is indexed by block; visited is the set of blocks whose       *)
(* visited flag is set; ub records undefined behaviour.  (size_t)-1 is -1. *)
(***************************************************************************)
\* The calloc'ed array after the initialisation loop of compute_dominance.
nodes_init(st) ==
    LET idx == 0..(Len(st.func.code_list) - 1)
    IN [code |-> [i \in idx |-> NULL],
        parent |-> [i \in idx |-> 0],
        ancestor |-> [i \in idx |-> -1],
        semi |-> [i \in idx |-> i],
        idom |-> [i \in idx |-> 0],
        best |-> [i \in idx |-> i],
        bucket |-> [i \in idx |-> {}],
        frontier |-> [i \in idx |-> {}],
        uses_var |-> [i \in idx |-> FALSE],
        dfs_index |-> [c \in DOMAIN st.code |-> 0],
        visited |-> {},
        ctr |-> 0,
        ub |-> FALSE]

nodes_len(d) == Cardinality(DOMAIN d.code)
Ub(d) == [d EXCEPT !.ub = TRUE]

RECURSIVE dom_node_dfs(_, _, _, _)
RECURSIVE dom_node_dfs_succs(_, _, _, _)
dom_node_dfs_succs(st, d, ss, parent) ==
    IF ss = <<>> \/ d.ub THEN d
    ELSE dom_node_dfs_succs(st, Invoke("dom_node_dfs", <<st, d, Head(ss), parent>>), Tail(ss), parent)

\* dom_node_dfs.
dom_node_dfs(st, d, c, parent) ==
    IF d.ub THEN d
    ELSE IF c = NULL \/ ~LiveCode(st, c) THEN Ub(d)
    ELSE IF c \in d.visited THEN d
    ELSE IF d.ctr >= nodes_len(d) THEN Ub(d)
    ELSE LET d1 == [d EXCEPT !.visited = @ \cup {c},
                             !.dfs_index[c] = d.ctr,
                             !.code[d.ctr] = c,
                             !.parent[d.ctr] = parent,
                             !.ctr = @ + 1]
         IN Invoke("dom_node_dfs_succs", <<st, d1, SetToSeq(st.code[c].succ), d.ctr>>)

RECURSIVE dom_node_compress(_, _)
\* dom_node_compress.
dom_node_compress(d, v) ==
    LET a == d.ancestor[v]
    IN IF a = -1 THEN d
       ELSE LET d1 == dom_node_compress(d, a)
                d2 == IF d1.semi[d1.best[v]] > d1.semi[d1.best[a]]
                      THEN [d1 EXCEPT !.best[v] = d1.best[a]] ELSE d1
            IN [d2 EXCEPT !.ancestor[v] = d2.ancestor[a]]

\* dom_node_eval: returns [d, u].
dom_node_eval(d, v) ==
    IF d.ancestor[v] = -1 THEN [d |-> d, u |-> v]
    ELSE LET d1 == dom_node_compress(d, v)
         IN [d |-> d1, u |-> d1.best[v]]

RECURSIVE dom_preds(_, _, _, _)
\* compute_dominance: the set_foreach over the predecessors of node w.
dom_preds(st, d, w, ps) ==
    IF ps = <<>> \/ d.ub THEN d
    ELSE IF ~LiveCode(st, Head(ps)) THEN Ub(d)
    ELSE LET e == Invoke("dom_node_eval", <<d, d.dfs_index[Head(ps)]>>)
             d1 == IF e.d.semi[w] > e.d.semi[e.u]
                   THEN [e.d EXCEPT !.semi[w] = e.d.semi[e.u]] ELSE e.d
             d2 == [d1 EXCEPT !.bucket[d1.semi[w]] = @ \cup {w}]
             d3 == [d2 EXCEPT !.ancestor[w] = d2.parent[w]]
         IN dom_preds(st, d3, w, Tail(ps))

RECURSIVE dom_bucket(_, _, _)
\* compute_dominance: the set_foreach over bucket[parent[w]].
dom_bucket(d, w, vs) ==
    IF vs = <<>> THEN d
    ELSE LET e == Invoke("dom_node_eval", <<d, Head(vs)>>)
             d1 == [e.d EXCEPT !.idom[Head(vs)] =
                       IF e.d.semi[e.u] < e.d.semi[Head(vs)] THEN e.u ELSE e.d.parent[w]]
         IN dom_bucket(d1, w, Tail(vs))

RECURSIVE dom_semi_loop(_, _, _)
\* compute_dominance: `for (w = nodes_len - 1; w >= 1; w--)`.
dom_semi_loop(st, d, w) ==
    IF w < 1 \/ d.ub THEN d
    ELSE IF d.code[w] = NULL THEN Ub(d)
    ELSE LET d1 == Invoke("dom_preds", <<st, d, w, SetToSeq(st.code[d.code[w]].pred)>>)
         IN IF d1.ub THEN d1
            ELSE dom_semi_loop(st, Invoke("dom_bucket", <<d1, w, SetToSeq(d1.bucket[d1.parent[w]])>>), w - 1)

RECURSIVE dom_idom_loop(_, _)
\* compute_dominance: `for (w = 1; w < nodes_len; w++)`.
dom_idom_loop(d, w) ==
    IF w >= nodes_len(d) THEN d
    ELSE dom_idom_loop(IF d.idom[w] # d.semi[w]
                       THEN [d EXCEPT !.idom[w] = d.idom[d.idom[w]]] ELSE d,
                       w + 1)

RECURSIVE frontier_runner(_, _, _)
\* compute_dominance: `while (runner != nodes[i].idom)`.
frontier_runner(d, i, runner) ==
    IF d.ub \/ runner = d.idom[i] THEN d
    ELSE IF runner \notin DOMAIN d.code THEN Ub(d)
    ELSE frontier_runner([d EXCEPT !.frontier[runner] = @ \cup {i}], i, d.idom[runner])

RECURSIVE frontier_preds(_, _, _, _)
frontier_preds(st, d, i, ps) ==
    IF ps = <<>> \/ d.ub THEN d
    ELSE frontier_preds(st, Invoke("frontier_runner", <<d, i, d.dfs_index[Head(ps)]>>), i, Tail(ps))

RECURSIVE frontier_loop(_, _, _)
\* compute_dominance: compute dominance frontiers.
frontier_loop(st, d, i) ==
    IF i >= nodes_len(d) \/ d.ub THEN d
    ELSE IF Cardinality(st.code[d.code[i]].pred) < 2 THEN frontier_loop(st, d, i + 1)
    ELSE frontier_loop(st, Invoke("frontier_preds", <<st, d, i, SetToSeq(st.code[d.code[i]].pred)>>), i + 1)

\* compute_dominance.
compute_dominance(st) ==
    LET d0 == nodes_init(st)
        d1 == Invoke("dom_node_dfs", <<st, d0, list_head(st.func.code_list), -1>>)
        d2 == Invoke("dom_semi_loop", <<st, d1, nodes_len(d1) - 1>>)
    IN IF d2.ub THEN d2
       ELSE LET d3 == Invoke("dom_idom_loop", <<d2, 1>>)
                d4 == [d3 EXCEPT !.idom[0] = -1]
            IN Invoke("frontier_loop", <<st, d4, 1>>)

(***************************************************************************)
(* SSA conversion (ir.c).                                                  *)
(***************************************************************************)
\* create_combinator that appends the combinator to the block.
create_combinator_appended(st, c, dest) ==
    LET preds == SetToSeq(st.code[c].pred)
        rec == Insn(c, TRUE, "COMBINATOR", dest, "NONE",
                    [k \in 1..Len(preds) |-> Const(st.var[dest].prim_type, 0)], preds, NULL)
        id == st.alloc.insn + 1
        s1 == [st EXCEPT !.insn = (id :> rec) @@ @, !.alloc.insn = id]
        s2 == IF preds # <<>> THEN use_add(s1, dest, id) ELSE s1
        s3 == [s2 EXCEPT !.var[dest].assigned_at = Append(@, id)]
    IN [s3 EXCEPT !.code[c].insns = Append(@, id)]

\* create_combinator.
create_combinator(st, c, dest) ==
    LET preds == SetToSeq(st.code[c].pred)
        zero == Const(st.var[dest].prim_type, 0)
        rec == Insn(c, TRUE, "COMBINATOR", dest, "NONE",
                    [k \in 1..Len(preds) |-> zero], preds, NULL)
        id == st.alloc.insn + 1
        s1 == [st EXCEPT !.insn = (id :> rec) @@ @, !.alloc.insn = id]
        s2 == IF preds # <<>> THEN use_add(s1, dest, id) ELSE s1
        s3 == [s2 EXCEPT !.var[dest].assigned_at = Append(@, id)]
    IN [s3 EXCEPT !.code[c].insns = <<id>> \o @]

RECURSIVE var_usage_dfs(_, _, _)
RECURSIVE var_usage_succs(_, _, _, _)
\* var_usage_dfs: the set_foreach over code->succ.  Returns [d, ret].
var_usage_succs(st, d, ss, uses_var) ==
    IF ss = <<>> \/ d.ub THEN [d |-> d, ret |-> uses_var]
    ELSE LET r == Invoke("var_usage_dfs", <<st, d, Head(ss)>>)
         IN var_usage_succs(st, r.d, Tail(ss), uses_var \/ r.ret)

\* var_usage_dfs.
var_usage_dfs(st, d, c) ==
    IF d.ub THEN [d |-> d, ret |-> FALSE]
    ELSE IF ~LiveCode(st, c) THEN [d |-> Ub(d), ret |-> FALSE]
    ELSE IF c \in d.visited THEN [d |-> d, ret |-> d.uses_var[d.dfs_index[c]]]
    ELSE LET d1 == [d EXCEPT !.visited = @ \cup {c}]
             r == Invoke("var_usage_succs", <<st, d1, SetToSeq(st.code[c].succ), d1.uses_var[d1.dfs_index[c]]>>)
         IN IF r.d.ub THEN r
            ELSE [d |-> [r.d EXCEPT !.uses_var[r.d.dfs_index[c]] = r.ret], ret |-> r.ret]

RECURSIVE mark_uses(_, _, _)
\* insert_combinators: mark the blocks of the instructions in var->used_at.
mark_uses(st, d, is) ==
    IF is = <<>> \/ d.ub THEN d
    ELSE IF ~LiveInsn(st, Head(is)) THEN Ub(d)
    ELSE IF ~LiveCode(st, st.insn[Head(is)].parent) THEN Ub(d)
    ELSE mark_uses(st, [d EXCEPT !.uses_var[d.dfs_index[st.insn[Head(is)].parent]] = TRUE],
                   Tail(is))

RECURSIVE mark_defs(_, _, _)
\* insert_combinators: the usage search from every assignment of the variable.
mark_defs(st, d, es) ==
    IF es = <<>> \/ d.ub THEN d
    ELSE LET c == st.insn[Head(es)].parent
             d1 == [d EXCEPT !.uses_var[d.dfs_index[c]] = TRUE]
         IN mark_defs(st, Invoke("var_usage_dfs", <<st, d1, c>>).d, Tail(es))

\* set_next on a set of node indices: the element after cur, or -1 at the end.
set_next(S, cur) == IF {x \in S : x > cur} = {} THEN -1 ELSE Min({x \in S : x > cur})

RECURSIVE phi_pass(_, _, _, _, _)
\* insert_combinators: the set_foreach over `frontier`, which grows while it is
\* walked.  Returns [st, d].  `changed` is never set in the loop body, so the
\* enclosing while loop runs this walk once.
phi_pass(st, d, v, frontier, cur) ==
    LET index == set_next(frontier, cur)
    IN IF index = -1 THEN [st |-> st, d |-> d]
       ELSE LET c == d.code[index]
            IN IF c \in d.visited \/ ~d.uses_var[index]
               THEN phi_pass(st, d, v, frontier, index)
               ELSE phi_pass(Invoke("create_combinator", <<st, c, v>>),
                             [d EXCEPT !.visited = @ \cup {c}],
                             v, frontier \cup d.frontier[index], index)

\* insert_combinators.  Returns [st, d].
insert_combinators(st, d, v) ==
    LET d1 == [d EXCEPT !.uses_var = [i \in DOMAIN d.uses_var |-> FALSE], !.visited = {}]
        d2 == Invoke("mark_uses", <<st, d1, SetToSeq(st.var[v].used_at)>>)
        d3 == Invoke("mark_defs", <<st, d2, st.var[v].assigned_at>>)
        d4 == [d3 EXCEPT !.visited = {}]
        frontier == UNION {d4.frontier[d4.dfs_index[st.insn[e].parent]] :
                              e \in Range(st.var[v].assigned_at)}
    IN IF d3.ub THEN [st |-> Crash(st), d |-> d3]
       ELSE Invoke("phi_pass", <<st, d4, v, frontier, -1>>)

\* replace_insn_var that leaves the value of a Return alone.
replace_insn_var_not_return(st, i, from, to) ==
    LET rec == st.insn[i]
        s1 == use_remove(st, from, i)
        pos == IF rec.type \in {"BINARY", "UNARY", "BRANCH", "CALL_DIRECT", "CALL_PTR"}
               THEN {k \in 1..Len(rec.ops) : ~rec.ops[k].is_const /\ rec.ops[k].var = from}
               ELSE {}
    IN IF pos = {} THEN s1
       ELSE IF to = NULL THEN Crash(s1)
       ELSE [use_add(s1, to, i) EXCEPT !.insn[i].ops =
                [k \in 1..Len(rec.ops) |-> IF k \in pos THEN Var(to) ELSE rec.ops[k]]]

\* replace_insn_var; to = NULL is the null pointer.
replace_insn_var(st, i, from, to) ==
    LET rec == st.insn[i]
        s1 == use_remove(st, from, i)
        pos == IF rec.type \in {"BINARY", "UNARY", "BRANCH", "RETURN", "CALL_DIRECT", "CALL_PTR"}
               THEN {k \in 1..Len(rec.ops) : ~rec.ops[k].is_const /\ rec.ops[k].var = from}
               ELSE {}
    IN IF pos = {} THEN s1
       ELSE IF to = NULL THEN Crash(s1)
       ELSE [use_add(s1, to, i) EXCEPT !.insn[i].ops =
                [k \in 1..Len(rec.ops) |-> IF k \in pos THEN Var(to) ELSE rec.ops[k]]]

RECURSIVE replace_phi_vars_walk(_, _, _, _, _)
\* replace_phi_vars: the walk over the leading combinators of the block.
replace_phi_vars_walk(st, pred, is, from, to) ==
    IF is = <<>> THEN st
    ELSE LET e == Head(is)
             rec == st.insn[e]
             pos == {k \in 1..Len(rec.ops) : rec.prev[k] = pred /\ ~rec.ops[k].is_const}
         IN IF ~rec.is_expr THEN st
            ELSE IF rec.type # "COMBINATOR" THEN st
            ELSE IF rec.dest \in from
            THEN IF pos = {} THEN st
                 ELSE [use_add(st, to, e) EXCEPT !.insn[e].ops =
                          [k \in 1..Len(rec.ops) |-> IF k \in pos THEN Var(to) ELSE rec.ops[k]]]
            ELSE replace_phi_vars_walk(st, pred, Tail(is), from, to)

\* replace_phi_vars.
replace_phi_vars(st, pred, c, from, to) ==
    IF ~Ok(st) THEN st
    ELSE IF ~LiveCode(st, c) THEN Crash(st)
    ELSE replace_phi_vars_walk(st, pred, st.code[c].insns, from, to)

RECURSIVE rename_insns(_, _, _, _, _)
\* rename_assignments: the walk over the instructions of the block.
\* Returns [st, to, phi_from].
rename_insns(st, is, from, to, phi_from) ==
    IF is = <<>> \/ ~Ok(st) THEN [st |-> st, to |-> to, phi_from |-> phi_from]
    ELSE LET i == Head(is)
             s1 == Invoke("replace_insn_var", <<st, i, from, to>>)
         IN IF ~Ok(s1) THEN [st |-> s1, to |-> to, phi_from |-> phi_from]
            ELSE IF s1.insn[i].is_expr /\ s1.insn[i].dest = from
            THEN LET s2 == [s1 EXCEPT !.var[from].assigned_at = dlist_remove(@, i)]
                     s3 == ir_var_create(s2, s2.var[from].prim_type, NoName)
                     nto == s3.alloc.var
                     s4 == [s3 EXCEPT !.insn[i].dest = nto,
                                      !.var[nto].assigned_at = Append(@, i)]
                 IN rename_insns(s4, Tail(is), from, nto,
                                 IF s4.insn[i].type = "COMBINATOR"
                                 THEN phi_from \cup {nto} ELSE phi_from)
            ELSE rename_insns(s1, Tail(is), from, to, phi_from)

RECURSIVE rename_phi_succs(_, _, _, _, _)
\* rename_assignments: replace_phi_vars on every successor.
rename_phi_succs(st, c, ss, phi_from, to) ==
    IF ss = <<>> \/ ~Ok(st) THEN st
    ELSE rename_phi_succs(Invoke("replace_phi_vars", <<st, c, Head(ss), phi_from, to>>), c, Tail(ss), phi_from, to)

RECURSIVE rename_assignments(_, _, _, _, _, _)
RECURSIVE rename_succs(_, _, _, _, _, _)
\* rename_assignments: the recursion into every successor.
\* Returns [st, visited, phi_from].
rename_succs(st, visited, ss, from, to, phi_from) ==
    IF ss = <<>> \/ ~Ok(st) THEN [st |-> st, visited |-> visited, phi_from |-> phi_from]
    ELSE LET r == Invoke("rename_assignments", <<st, visited, Head(ss), from, to, phi_from>>)
         IN rename_succs(r.st, r.visited, Tail(ss), from, to, r.phi_from)

\* rename_assignments.
rename_assignments(st, visited, c, from, to, phi_from) ==
    IF ~Ok(st) THEN [st |-> st, visited |-> visited, phi_from |-> phi_from]
    ELSE IF c = NULL \/ ~LiveCode(st, c)
    THEN [st |-> Crash(st), visited |-> visited, phi_from |-> phi_from]
    ELSE IF c \in visited THEN [st |-> st, visited |-> visited, phi_from |-> phi_from]
    ELSE LET r == Invoke("rename_insns", <<st, st.code[c].insns, from, to, phi_from>>)
             ss == SetToSeq(st.code[c].succ)
             s1 == IF r.to # NULL THEN Invoke("rename_phi_succs", <<r.st, c, ss, r.phi_from, r.to>>) ELSE r.st
         IN Invoke("rename_succs", <<s1, visited \cup {c}, ss, from, r.to, r.phi_from>>)

RECURSIVE to_ssa_vars(_, _, _)
\* ir_func_to_ssa: the loop over the variables that existed at the start.
to_ssa_vars(st, d, vs) ==
    IF vs = <<>> \/ ~Ok(st) THEN st
    ELSE LET r == Invoke("insert_combinators", <<st, d, Head(vs)>>)
         IN IF ~Ok(r.st) THEN r.st
            ELSE to_ssa_vars(Invoke("rename_assignments", <<r.st, {}, list_head(r.st.func.code_list),
                                                Head(vs), NULL, {Head(vs)}>>).st,
                             r.d, Tail(vs))

\* ir_func_to_ssa without the early return on enforce_ssa.
ir_func_to_ssa_again(st) ==
    IF ~Ok(st) THEN st
    ELSE LET d == Invoke("compute_dominance", <<st>>)
         IN IF d.ub THEN Crash(st)
            ELSE LET s1 == Invoke("to_ssa_vars", <<st, d, st.func.vars_list>>)
                 IN IF ~Ok(s1) THEN s1
                    ELSE [s1 EXCEPT !.func.enforce_ssa = TRUE]

\* ir_func_to_ssa whose final cleanup clears the blocks' predecessor sets
\* instead of the dominance nodes' sets.
ir_func_to_ssa_clears_pred(st) ==
    IF st.func.enforce_ssa THEN st
    ELSE LET s1 == ir_func_to_ssa_again(st)
         IN IF ~Ok(s1) THEN s1
            ELSE [s1 EXCEPT !.code = [c \in DOMAIN s1.code |-> [s1.code[c] EXCEPT !.pred = {}]]]

\* ir_func_to_ssa.
ir_func_to_ssa(st) ==
    IF ~Ok(st) \/ st.func.enforce_ssa THEN st
    ELSE LET d == Invoke("compute_dominance", <<st>>)
         IN IF d.ub THEN Crash(st)
            ELSE LET s1 == Invoke("to_ssa_vars", <<st, d, st.func.vars_list>>)
                 IN IF ~Ok(s1) THEN s1
                    ELSE [s1 EXCEPT !.func.enforce_ssa = TRUE]

(***************************************************************************)
(* The public operations as calls.  A call is a record                      *)
(*   [op, c, v, prim, oper, os, prev, to]                                  *)
(* naming the operation, the block, the variable, and the operands.        *)
(***************************************************************************)
K(op, c, v, prim, oper, os, prev, to) ==
    [op |-> op, c |-> c, v |-> v, prim |-> prim, oper |-> oper, os |-> os,
     prev |-> prev, to |-> to]

CreateVariableK(prim) == K("CreateVariable", NULL, NULL, prim, "NONE", <<>>, <<>>, NULL)
CreateCodeBlockK == K("CreateCodeBlock", NULL, NULL, "NONE", "NONE", <<>>, <<>>, NULL)
AddUnaryK(c, dest, oper, operand) == K("AddUnary", c, dest, "NONE", oper, <<operand>>, <<>>, NULL)
AddBinaryK(c, dest, oper, lhs, rhs) == K("AddBinary", c, dest, "NONE", oper, <<lhs, rhs>>, <<>>, NULL)
AddUndefinedK(c, dest) == K("AddUndefined", c, dest, "NONE", "NONE", <<>>, <<>>, NULL)
AddCombinatorK(c, dest, prev, binds) == K("AddCombinator", c, dest, "NONE", "NONE", binds, prev, NULL)
AddJumpK(from, to) == K("AddJump", from, NULL, "NONE", "NONE", <<>>, <<>>, to)
AddBranchK(from, cond, to) == K("AddBranch", from, NULL, "NONE", "NONE", <<cond>>, <<>>, to)
AddCallDirectK(from, params) == K("AddCallDirect", from, NULL, "NONE", "NONE", params, <<>>, NULL)
AddCallPtrK(from, addr, params) == K("AddCallPtr", from, NULL, "NONE", "NONE", <<addr>> \o params, <<>>, NULL)
AddReturn0K(from) == K("AddReturn0", from, NULL, "NONE", "NONE", <<>>, <<>>, NULL)
AddReturn1K(from, value) == K("AddReturn1", from, NULL, "NONE", "NONE", <<value>>, <<>>, NULL)
DeleteInstructionK(i) == K("DeleteInstruction", NULL, i, "NONE", "NONE", <<>>, <<>>, NULL)
DeleteVariableK(v) == K("DeleteVariable", NULL, v, "NONE", "NONE", <<>>, <<>>, NULL)
ReplaceVariableK(v, value) == K("ReplaceVariable", NULL, v, "NONE", "NONE", <<value>>, <<>>, NULL)
DeleteBlockK(c) == K("DeleteBlock", c, NULL, "NONE", "NONE", <<>>, <<>>, NULL)
RecalculateFlowK == K("RecalculateFlow", NULL, NULL, "NONE", "NONE", <<>>, <<>>, NULL)
ToSsaK == K("ToSsa", NULL, NULL, "NONE", "NONE", <<>>, <<>>, NULL)
OptimizeK == K("Optimize", NULL, NULL, "NONE", "NONE", <<>>, <<>>, NULL)
\* A call of one optimization pass: opt_unused_vars, opt_const_prop,
\* opt_dead_code or opt_branches.
PassK(pass) == K(pass, NULL, NULL, "NONE", "NONE", <<>>, <<>>, NULL)

\* The effect of a call on a state: [st, ret]; ret is the return value of
\* optimize and FALSE for the void operations.
Call(st, k) ==
    LET void(s) == [st |-> s, ret |-> FALSE]
    IN CASE k.op = "CreateVariable" -> void(ir_var_create(st, k.prim, NoName))
         [] k.op = "CreateCodeBlock" -> void(ir_code_create(st, NoName))
         [] k.op = "AddUnary" -> void(Invoke("ir_add_expr1", <<st, k.c, k.v, k.oper, k.os[1]>>))
         [] k.op = "AddBinary" -> void(Invoke("ir_add_expr2", <<st, k.c, k.v, k.oper, k.os[1], k.os[2]>>))
         [] k.op = "AddUndefined" -> void(Invoke("ir_add_undefined", <<st, k.c, k.v>>))
         [] k.op = "AddCombinator" ->
                void(Invoke("ir_add_combinator", <<st, k.c, k.v,
                        [j \in 1..Len(k.os) |-> [prev |-> k.prev[j], bind |-> k.os[j]]]>>))
         [] k.op = "AddJump" -> void(Invoke("ir_add_jump", <<st, k.c, k.to>>))
         [] k.op = "AddBranch" -> void(Invoke("ir_add_branch", <<st, k.c, k.os[1], k.to>>))
         [] k.op = "AddCallDirect" -> void(Invoke("ir_add_call_direct", <<st, k.c, k.os>>))
         [] k.op = "AddCallPtr" -> void(Invoke("ir_add_call_ptr", <<st, k.c, k.os[1], Tail(k.os)>>))
         [] k.op = "AddReturn0" -> void(Invoke("ir_add_return0", <<st, k.c>>))
         [] k.op = "AddReturn1" -> void(Invoke("ir_add_return1", <<st, k.c, k.os[1]>>))
         [] k.op = "DeleteInstruction" -> void(Invoke("ir_insn_delete", <<st, k.v>>))
         [] k.op = "DeleteVariable" -> void(Invoke("ir_var_delete", <<st, k.v>>))
         [] k.op = "ReplaceVariable" -> void(Invoke("ir_var_replace", <<st, k.v, k.os[1]>>))
         [] k.op = "DeleteBlock" -> void(Invoke("ir_code_delete", <<st, k.c>>))
         [] k.op = "RecalculateFlow" -> void(Invoke("ir_func_recalc_flow", <<st>>))
         [] k.op = "ToSsa" -> void(Invoke("ir_func_to_ssa", <<st>>))
         [] k.op = "Optimize" -> Invoke("optimize", <<st>>)
         [] k.op = "UnusedVars" -> Invoke("opt_unused_vars", <<st>>)
         [] k.op = "ConstProp" -> Invoke("opt_const_prop", <<st>>)
         [] k.op = "DeadCode" -> Invoke("opt_dead_code", <<st>>)
         [] k.op = "Branches" -> Invoke("opt_branches", <<st>>)

RECURSIVE Build(_, _)
\* The state after a client made the calls of a script on state st.
Build(st, script) ==
    IF script = <<>> THEN st ELSE Build(Invoke("Call", <<st, Head(script)>>).st, Tail(script))

(***************************************************************************)
(* A call of one C function from another, by the callee's name and its     *)
(* argument list.                                                          *)
(***************************************************************************)
Invoke(fn, a) ==
    CASE fn = "expr_append" -> expr_append(a[1], a[2])
      [] fn = "ir_add_combinator" -> ir_add_combinator(a[1], a[2], a[3], a[4])
      [] fn = "ir_add_expr1" -> ir_add_expr1(a[1], a[2], a[3], a[4], a[5])
      [] fn = "ir_add_expr2" -> ir_add_expr2(a[1], a[2], a[3], a[4], a[5], a[6])
      [] fn = "ir_add_undefined" -> ir_add_undefined(a[1], a[2], a[3])
      [] fn = "flow_append" -> flow_append(a[1], a[2])
      [] fn = "ir_add_call_direct" -> ir_add_call_direct(a[1], a[2], a[3])
      [] fn = "ir_add_call_ptr" -> ir_add_call_ptr(a[1], a[2], a[3], a[4])
      [] fn = "ir_add_jump" -> ir_add_jump(a[1], a[2], a[3])
      [] fn = "ir_add_branch" -> ir_add_branch(a[1], a[2], a[3], a[4])
      [] fn = "ir_add_return0" -> ir_add_return0(a[1], a[2])
      [] fn = "ir_add_return1" -> ir_add_return1(a[1], a[2], a[3])
      [] fn = "insn_delete_uses" -> insn_delete_uses(a[1], a[2])
      [] fn = "ir_insn_delete" -> ir_insn_delete(a[1], a[2])
      [] fn = "insn_delete_seq" -> insn_delete_seq(a[1], a[2])
      [] fn = "ir_var_delete" -> ir_var_delete(a[1], a[2])
      [] fn = "var_replace_seq" -> var_replace_seq(a[1], a[2], a[3], a[4])
      [] fn = "ir_var_replace" -> ir_var_replace(a[1], a[2], a[3])
      [] fn = "remove_combinator_path" -> remove_combinator_path(a[1], a[2], a[3])
      [] fn = "delete_jumps_to" -> delete_jumps_to(a[1], a[2], a[3])
      [] fn = "code_delete_preds" -> code_delete_preds(a[1], a[2], a[3])
      [] fn = "update_phis" -> update_phis(a[1], a[2], a[3])
      [] fn = "code_delete_succs" -> code_delete_succs(a[1], a[2], a[3])
      [] fn = "delete_all_insns" -> delete_all_insns(a[1], a[2])
      [] fn = "ir_code_delete" -> ir_code_delete(a[1], a[2])
      [] fn = "recalc_insns" -> recalc_insns(a[1], a[2], a[3])
      [] fn = "recalc_codes" -> recalc_codes(a[1], a[2])
      [] fn = "ir_func_recalc_flow" -> ir_func_recalc_flow(a[1])
      [] fn = "unused_vars_scan" -> unused_vars_scan(a[1], a[2], a[3])
      [] fn = "unused_vars_loop" -> unused_vars_loop(a[1], a[2])
      [] fn = "opt_unused_vars" -> opt_unused_vars(a[1])
      [] fn = "const_prop_expr" -> const_prop_expr(a[1], a[2])
      [] fn = "const_prop_scan" -> const_prop_scan(a[1], a[2], a[3])
      [] fn = "const_prop_loop" -> const_prop_loop(a[1], a[2])
      [] fn = "opt_const_prop" -> opt_const_prop(a[1])
      [] fn = "dead_code_walk" -> dead_code_walk(a[1], a[2], a[3], a[4], a[5])
      [] fn = "dead_code_dfs" -> dead_code_dfs(a[1], a[2], a[3])
      [] fn = "delete_unvisited" -> delete_unvisited(a[1], a[2], a[3])
      [] fn = "dead_code_loop" -> dead_code_loop(a[1], a[2])
      [] fn = "opt_dead_code" -> opt_dead_code(a[1])
      [] fn = "reparent" -> reparent(a[1], a[2], a[3])
      [] fn = "merge_code" -> merge_code(a[1], a[2], a[3])
      [] fn = "splice_loop" -> splice_loop(a[1], a[2], a[3])
      [] fn = "branch_opt_succs" -> branch_opt_succs(a[1], a[2], a[3], a[4], a[5])
      [] fn = "branch_opt_dfs" -> branch_opt_dfs(a[1], a[2], a[3])
      [] fn = "opt_branches" -> opt_branches(a[1])
      [] fn = "optimize_loop" -> optimize_loop(a[1], a[2])
      [] fn = "optimize" -> optimize(a[1])
      [] fn = "dom_node_dfs_succs" -> dom_node_dfs_succs(a[1], a[2], a[3], a[4])
      [] fn = "dom_node_dfs" -> dom_node_dfs(a[1], a[2], a[3], a[4])
      [] fn = "dom_node_eval" -> dom_node_eval(a[1], a[2])
      [] fn = "dom_preds" -> dom_preds(a[1], a[2], a[3], a[4])
      [] fn = "dom_bucket" -> dom_bucket(a[1], a[2], a[3])
      [] fn = "dom_semi_loop" -> dom_semi_loop(a[1], a[2], a[3])
      [] fn = "dom_idom_loop" -> dom_idom_loop(a[1], a[2])
      [] fn = "frontier_runner" -> frontier_runner(a[1], a[2], a[3])
      [] fn = "frontier_preds" -> frontier_preds(a[1], a[2], a[3], a[4])
      [] fn = "frontier_loop" -> frontier_loop(a[1], a[2], a[3])
      [] fn = "compute_dominance" -> compute_dominance(a[1])
      [] fn = "create_combinator" -> create_combinator(a[1], a[2], a[3])
      [] fn = "var_usage_succs" -> var_usage_succs(a[1], a[2], a[3], a[4])
      [] fn = "var_usage_dfs" -> var_usage_dfs(a[1], a[2], a[3])
      [] fn = "mark_uses" -> mark_uses(a[1], a[2], a[3])
      [] fn = "mark_defs" -> mark_defs(a[1], a[2], a[3])
      [] fn = "phi_pass" -> phi_pass(a[1], a[2], a[3], a[4], a[5])
      [] fn = "insert_combinators" -> insert_combinators(a[1], a[2], a[3])
      [] fn = "replace_insn_var" -> replace_insn_var(a[1], a[2], a[3], a[4])
      [] fn = "replace_phi_vars" -> replace_phi_vars(a[1], a[2], a[3], a[4], a[5])
      [] fn = "rename_insns" -> rename_insns(a[1], a[2], a[3], a[4], a[5])
      [] fn = "rename_phi_succs" -> rename_phi_succs(a[1], a[2], a[3], a[4], a[5])
      [] fn = "rename_succs" -> rename_succs(a[1], a[2], a[3], a[4], a[5], a[6])
      [] fn = "rename_assignments" -> rename_assignments(a[1], a[2], a[3], a[4], a[5], a[6])
      [] fn = "to_ssa_vars" -> to_ssa_vars(a[1], a[2], a[3])
      [] fn = "ir_func_to_ssa" -> ir_func_to_ssa(a[1])
      [] fn = "Call" -> Call(a[1], a[2])
      [] fn = "Build" -> Build(a[1], a[2])

(***************************************************************************)
(* Client programs: scripts of builder calls on a fresh function           *)
(* f(a: S32) with entry block `entry`.  Variable a is id 1, the entry      *)
(* block is id 1; later ids follow the order of creation.                  *)
(***************************************************************************)
Fresh == ir_func_create("f", "entry", <<"a">>)

S32(n) == Const("S32", n)
Bool(n) == Const("BOOL", n)

\* The handles the scripts name: allocation order fixes them.  The argument
\* and the entry block come from ir_func_create, the others from the
\* script's own CreateVariable / CreateCodeBlock calls, in order.
arg_a == Fresh.func.args[1]
var_x == Fresh.alloc.var + 1
var_c == var_x + 1
var_y == var_c + 1
code_entry == Fresh.func.entry
code_2 == Fresh.alloc.code + 1
code_3 == code_2 + 1
code_4 == code_3 + 1
code_5 == code_4 + 1
code_6 == code_5 + 1

When(b, script) == IF b THEN script ELSE <<>>
\* The ways a block reads or returns at its end.
Rets == {"none", "x", "a"}
Ret(c, r) == IF r = "x" THEN <<AddReturn1K(c, Var(var_x))>>
             ELSE IF r = "a" THEN <<AddReturn1K(c, Var(arg_a))>>
             ELSE <<AddReturn0K(c)>>
\* The ways a block assigns x.
Defs == {"none", "mov", "inc"}
Def(c, d) == IF d = "mov" THEN <<AddUnaryK(c, var_x, "MOV", S32(1))>>
             ELSE IF d = "inc" THEN <<AddBinaryK(c, var_x, "ADD", Var(var_x), S32(1))>>
             ELSE <<>>
\* The branch conditions: a variable, constant true, constant false.
Conds == {Var(var_c), Bool(1), Bool(0)}

\* Single-block programs (scenarios A and D among them).
Straight ==
    {<<CreateVariableK("S32"), AddBinaryK(code_entry, var_x, "ADD", S32(2), S32(3)), AddReturn1K(code_entry, Var(var_x))>>,
     <<CreateVariableK("S32"), CreateVariableK("BOOL"), CreateVariableK("S32"),
       AddUnaryK(code_entry, var_x, "MOV", S32(7)), AddBinaryK(code_entry, var_y, "ADD", Var(var_x), Var(var_x)),
       AddReturn1K(code_entry, Var(var_y))>>,
     <<CreateVariableK("S32"), CreateVariableK("BOOL"),
       AddUnaryK(code_entry, var_c, "SEQZ", S32(0)), AddUnaryK(code_entry, var_x, "MOV", Var(var_c)),
       AddReturn1K(code_entry, Var(var_x))>>,
     <<CreateVariableK("S32"), AddBinaryK(code_entry, var_x, "ADD", Var(arg_a), S32(1)), AddReturn1K(code_entry, Var(var_x))>>,
     <<CreateVariableK("S32"), AddUndefinedK(code_entry, var_x), AddCallDirectK(code_entry, <<Var(arg_a), Var(var_x)>>),
       AddReturn0K(code_entry)>>,
     <<CreateVariableK("S32"), AddUndefinedK(code_entry, var_x), AddCallPtrK(code_entry, Var(arg_a), <<Var(var_x)>>),
       AddReturn0K(code_entry)>>,
     <<AddCallPtrK(code_entry, S32(1), <<Var(arg_a)>>), AddReturn1K(code_entry, Var(arg_a))>>,
     <<AddUnaryK(code_entry, arg_a, "MOV", S32(1))>>,
     <<AddUnaryK(code_entry, arg_a, "NEG", Var(arg_a))>>}

\* Scenario B: entry branches to B2 and falls through (or jumps) to B3.
Branchy ==
    {<<CreateVariableK("S32"), CreateVariableK("BOOL"), CreateCodeBlockK, CreateCodeBlockK,
       AddUndefinedK(code_entry, var_c), AddBranchK(code_entry, cond, code_2)>>
     \o When(jump, <<AddJumpK(code_entry, code_3)>>)
     \o <<AddReturn1K(code_2, S32(1)), AddReturn1K(code_3, S32(2))>> :
        cond \in Conds, jump \in BOOLEAN}

\* Scenarios C and F: the chain entry -> B2 -> B3.
Chain ==
    {<<CreateVariableK("S32"), CreateCodeBlockK, CreateCodeBlockK>>
     \o Def(code_entry, d1) \o <<AddJumpK(code_entry, code_2)>>
     \o Def(code_2, d2) \o <<AddJumpK(code_2, code_3)>>
     \o Ret(code_3, r) :
        d1 \in {"none", "mov"}, d2 \in Defs, r \in Rets}

\* The diamond entry -> {B2, B3} -> B4.
Diamond ==
    {<<CreateVariableK("S32"), CreateVariableK("BOOL"),
       CreateCodeBlockK, CreateCodeBlockK, CreateCodeBlockK, AddUndefinedK(code_entry, var_c)>>
     \o Def(code_entry, d1) \o <<AddBranchK(code_entry, Var(var_c), code_2), AddJumpK(code_entry, code_3)>>
     \o Def(code_2, d2) \o <<AddJumpK(code_2, code_4)>>
     \o Def(code_3, d3) \o <<AddJumpK(code_3, code_4)>>
     \o Ret(code_4, r) :
        d1 \in {"none", "mov"}, d2 \in {"none", "mov"}, d3 \in {"none", "inc"}, r \in {"none", "x"}}

\* The loop entry -> B2 (header) -> B3 (body) -> B2, leaving from the header to B4.
Loop ==
    {<<CreateVariableK("S32"), CreateVariableK("BOOL"),
       CreateCodeBlockK, CreateCodeBlockK, CreateCodeBlockK, AddUndefinedK(code_entry, var_c)>>
     \o Def(code_entry, d1) \o <<AddJumpK(code_entry, code_2)>>
     \o <<AddBranchK(code_2, Var(var_c), code_3), AddJumpK(code_2, code_4)>>
     \o Def(code_3, d3) \o <<AddJumpK(code_3, code_2)>>
     \o Ret(code_4, r) :
        d1 \in {"none", "mov"}, d3 \in {"none", "inc"}, r \in {"none", "x"}}

\* Blocks that jump to themselves or back to the entry.
Cycles ==
    {<<CreateVariableK("S32"), CreateCodeBlockK, AddJumpK(code_entry, code_2)>>
     \o Def(code_2, d) \o <<AddJumpK(code_2, code_2)>> : d \in {"none", "inc"}}
    \cup {<<CreateCodeBlockK, AddJumpK(code_entry, code_2), AddJumpK(code_2, code_entry)>>,
          <<AddJumpK(code_entry, code_entry)>>,
          <<AddCallDirectK(code_entry, <<Var(arg_a)>>), AddJumpK(code_entry, code_entry)>>}

\* A chain into a fork: entry -> code_2 -> {code_3, code_4}.
ChainBranch ==
    {<<CreateVariableK("S32"), CreateVariableK("BOOL"),
       CreateCodeBlockK, CreateCodeBlockK, CreateCodeBlockK, AddUndefinedK(code_entry, var_c)>>
     \o Def(code_entry, d1) \o <<AddJumpK(code_entry, code_2)>>
     \o Def(code_2, d2) \o <<AddBranchK(code_2, Var(var_c), code_3), AddJumpK(code_2, code_4)>>
     \o Ret(code_3, "none") \o Ret(code_4, r) :
        d1 \in {"none", "mov"}, d2 \in {"none", "inc"}, r \in {"none", "x"}}

\* A block that no jump reaches.
Unreachable ==
    {<<CreateVariableK("S32"), CreateCodeBlockK>> \o Ret(code_entry, r) \o u :
        r \in {"none", "a"},
        u \in {<<>>,
               <<AddReturn1K(code_2, Var(var_x))>>,
               <<AddUnaryK(code_2, var_x, "MOV", S32(1)), AddUnaryK(code_2, var_x, "MOV", S32(1)), AddJumpK(code_2, code_entry)>>}}

\* A branch and a jump of one block to the same target.
BranchJumpSame ==
    {<<CreateVariableK("S32"), CreateVariableK("BOOL"), CreateCodeBlockK,
       AddUndefinedK(code_entry, var_c), AddBranchK(code_entry, cond, code_2), AddJumpK(code_entry, code_2),
       AddReturn1K(code_2, Var(arg_a))>> : cond \in Conds}

\* Scenario E: B3 joins entry and B2 with a client-made combinator for y.
Phi ==
    {<<CreateVariableK("S32"), CreateVariableK("BOOL"), CreateVariableK("S32"),
       CreateCodeBlockK, CreateCodeBlockK,
       AddUndefinedK(code_entry, var_c), AddUnaryK(code_entry, var_x, "MOV", src),
       AddBranchK(code_entry, Var(var_c), code_2), AddJumpK(code_entry, code_3),
       AddJumpK(code_2, code_3),
       AddCombinatorK(code_3, var_y, <<code_entry, code_2>>, <<Var(var_x), bind>>),
       AddReturn1K(code_3, Var(var_y))>> :
        src \in {Var(arg_a), S32(1)}, bind \in {Var(arg_a), S32(1), Var(var_y)}}

\* A fork preceded by a constant Branch to a fourth block.
DeadArm ==
    {<<CreateVariableK("S32"), CreateVariableK("BOOL"),
       CreateCodeBlockK, CreateCodeBlockK, CreateCodeBlockK,
       AddUndefinedK(code_entry, var_c), AddBranchK(code_entry, cond, code_4),
       AddBranchK(code_entry, Var(var_c), code_2), AddJumpK(code_entry, code_3),
       AddReturn1K(code_2, S32(1)), AddReturn1K(code_3, S32(2)), AddReturn0K(code_4)>> :
        cond \in {Bool(0), Bool(1)}}

\* A join of entry and a block no jump reaches, with a client-made boolean
\* combinator (for var_x) that the join branches on.
PhiBranch ==
    {<<CreateVariableK("BOOL"), CreateVariableK("BOOL"),
       CreateCodeBlockK, CreateCodeBlockK, CreateCodeBlockK,
       AddUndefinedK(code_entry, var_c), AddJumpK(code_entry, code_3),
       AddJumpK(code_2, code_3),
       AddCombinatorK(code_3, var_x, <<code_entry, code_2>>, <<Bool(1), Var(var_c)>>),
       AddBranchK(code_3, Var(var_x), code_4), AddJumpK(code_3, code_4),
       AddReturn0K(code_4)>>}

\* A cross edge into a two-block cycle: entry forks to B2 and B3, B2 forks to
\* B3 and B4, B3 and B4 jump to each other.
CrossEdge ==
    {<<CreateVariableK("S32"), CreateVariableK("BOOL"),
       CreateCodeBlockK, CreateCodeBlockK, CreateCodeBlockK,
       AddUndefinedK(code_entry, var_c),
       AddBranchK(code_entry, Var(var_c), code_2), AddJumpK(code_entry, code_3),
       AddBranchK(code_2, Var(var_c), code_3), AddJumpK(code_2, code_4),
       AddJumpK(code_3, code_4), AddJumpK(code_4, code_3)>>}

\* A loop whose body holds a fork and a join: entry jumps to the header B2,
\* B2 forks to B3 and the join B4, B3 assigns x again, B4 goes back to B2 or
\* on to B5, which returns x.
LoopJoin ==
    {<<CreateVariableK("S32"), CreateVariableK("BOOL"),
       CreateCodeBlockK, CreateCodeBlockK, CreateCodeBlockK, CreateCodeBlockK,
       AddUndefinedK(code_entry, var_c), AddUnaryK(code_entry, var_x, "MOV", S32(1)),
       AddJumpK(code_entry, code_2),
       AddBranchK(code_2, Var(var_c), code_3), AddJumpK(code_2, code_4),
       AddUnaryK(code_3, var_x, "MOV", S32(2)), AddJumpK(code_3, code_4),
       AddBranchK(code_4, Var(var_c), code_2), AddJumpK(code_4, code_5),
       AddReturn1K(code_5, Var(var_x))>>}

\* A loop entered at W whose body assigns x first in A (the assignment the
\* client added first) and joins at the block code_5, whose only way on is the
\* edge back to code_4:
\*   entry: c = undef; x = Mov 0; Jump W.      W: Branch c A; Jump Q.
\*   A: x = Mov 1; Branch c W; Jump T.         Q: Branch c T; Jump R.
\*   T: Jump Q.                                R: Return x.
LoopUse ==
    {<<CreateVariableK("S32"), CreateVariableK("BOOL"),
       CreateCodeBlockK, CreateCodeBlockK, CreateCodeBlockK, CreateCodeBlockK,
       CreateCodeBlockK,
       AddUndefinedK(code_entry, var_c),
       AddUnaryK(code_3, var_x, "MOV", S32(1)),
       AddUnaryK(code_entry, var_x, "MOV", S32(0)),
       AddJumpK(code_entry, code_2),
       AddBranchK(code_2, Var(var_c), code_3), AddJumpK(code_2, code_4),
       AddBranchK(code_3, Var(var_c), code_2), AddJumpK(code_3, code_5),
       AddBranchK(code_4, Var(var_c), code_5), AddJumpK(code_4, code_6),
       AddJumpK(code_5, code_4),
       AddReturn1K(code_6, Var(var_x))>>}

\* A call that reads the parameter and a variable computed from it:
\*   entry: x = Add a 1; CallDirect(a, x); Return.
CallArgs ==
    {<<CreateVariableK("S32"),
       AddBinaryK(code_entry, var_x, "ADD", Var(arg_a), S32(1)),
       AddCallDirectK(code_entry, <<Var(arg_a), Var(var_x)>>),
       AddReturn0K(code_entry)>>}

Scripts ==
    {<<>>} \cup Straight \cup Branchy \cup Chain \cup Diamond \cup Loop \cup Cycles \cup ChainBranch
    \cup Unreachable \cup BranchJumpSame \cup Phi \cup DeadArm \cup PhiBranch \cup CrossEdge \cup LoopJoin
    \cup LoopUse \cup CallArgs

Programs == {Invoke("Build", <<Fresh, sc>>) : sc \in Scripts}

(***************************************************************************)
(* The state machine: a client builds a program, then calls public         *)
(* operations on it.                                                       *)
(***************************************************************************)
Init ==
    \E p \in Programs :
        /\ func = p.func /\ var = p.var /\ code = p.code /\ insn = p.insn
        /\ alloc = p.alloc /\ status = p.status
        /\ last = [call |-> K("Build", NULL, NULL, "NONE", "NONE", <<>>, <<>>, NULL), ret |-> FALSE]
        /\ pre = p
        /\ ops = 0

\* A client calls while the program runs; the number of calls is bounded.
Running == status = "ok" /\ ops < MaxOps

\* One public operation, as a whole.
Returned(k, r) ==
    /\ func' = r.st.func /\ var' = r.st.var /\ code' = r.st.code
    /\ insn' = r.st.insn /\ alloc' = r.st.alloc /\ status' = r.st.status
    /\ last' = [call |-> k, ret |-> r.ret]
    /\ pre' = St
    /\ ops' = ops + 1
Do(k) == Returned(k, Invoke("Call", <<St, k>>))

\* The handles and operands a client can pass.
Vars == DOMAIN var
Codes == DOMAIN code
Insns == DOMAIN insn
Consts == {S32(1), Bool(0), Bool(1)}
Operands == Consts \cup {Var(v) : v \in Vars}
Op1 == {"MOV", "SEQZ", "NEG"}
Op2 == {"ADD"}
Prims == {"S32", "BOOL"}
ParamLists == {<<>>} \cup {<<o>> : o \in Operands} \cup {<<Var(v), Var(w)>> : v, w \in Vars}
MayAdd == Running /\ alloc.insn < MaxInsns

CreateVariable == Running /\ alloc.var < MaxVars /\ \E prim \in Prims : Do(CreateVariableK(prim))
CreateCodeBlock == Running /\ alloc.code < MaxCodes /\ \E k \in {CreateCodeBlockK} : Do(k)
AddUnary ==
    /\ MayAdd
    /\ \E c \in Codes, dest \in Vars, oper \in Op1, operand \in Operands :
           Do(AddUnaryK(c, dest, oper, operand))
AddBinary ==
    /\ MayAdd
    /\ \E c \in Codes, dest \in Vars, oper \in Op2, lhs \in Operands, rhs \in Operands :
           Do(AddBinaryK(c, dest, oper, lhs, rhs))
AddUndefined == MayAdd /\ \E c \in Codes, dest \in Vars : Do(AddUndefinedK(c, dest))
AddCombinator ==
    /\ MayAdd
    /\ \E c \in Codes, dest \in Vars, P \in SUBSET Codes, bind \in Operands :
           Do(AddCombinatorK(c, dest, SetToSeq(P), [j \in 1..Cardinality(P) |-> bind]))
AddJump == MayAdd /\ \E from \in Codes, to \in Codes : Do(AddJumpK(from, to))
AddBranch ==
    MayAdd /\ \E from \in Codes, cond \in Operands, to \in Codes : Do(AddBranchK(from, cond, to))
AddCallDirect == MayAdd /\ \E from \in Codes, params \in ParamLists : Do(AddCallDirectK(from, params))
AddCallPtr ==
    /\ MayAdd
    /\ \E from \in Codes, addr \in Operands, params \in {<<>>} \cup {<<Var(v)>> : v \in Vars} :
           Do(AddCallPtrK(from, addr, params))
AddReturn0 == MayAdd /\ \E from \in Codes : Do(AddReturn0K(from))
AddReturn1 == MayAdd /\ \E from \in Codes, value \in Operands : Do(AddReturn1K(from, value))
DeleteInstruction == Running /\ \E i \in Insns : Do(DeleteInstructionK(i))
DeleteVariable == Running /\ \E v \in Vars : Do(DeleteVariableK(v))
ReplaceVariable == Running /\ \E v \in Vars, value \in Operands : Do(ReplaceVariableK(v, value))
DeleteBlock == Running /\ \E c \in Codes : Do(DeleteBlockK(c))
RecalculateFlow == Running /\ \E k \in {RecalculateFlowK} : Do(k)
ToSsa == Running /\ \E k \in {ToSsaK} : Do(k)
Optimize == Running /\ \E k \in {OptimizeK} : Do(k)
UnusedVars == Running /\ \E k \in {PassK("UnusedVars")} : Do(k)
ConstProp == Running /\ \E k \in {PassK("ConstProp")} : Do(k)
DeadCode == Running /\ \E k \in {PassK("DeadCode")} : Do(k)
Branches == Running /\ \E k \in {PassK("Branches")} : Do(k)

Next ==
    \/ CreateVariable \/ CreateCodeBlock
    \/ AddUnary \/ AddBinary \/ AddUndefined \/ AddCombinator
    \/ AddJump \/ AddBranch \/ AddCallDirect \/ AddCallPtr \/ AddReturn0 \/ AddReturn1
    \/ DeleteInstruction \/ DeleteVariable \/ ReplaceVariable \/ DeleteBlock
    \/ RecalculateFlow \/ ToSsa \/ Optimize
    \/ UnusedVars \/ ConstProp \/ DeadCode \/ Branches

Spec == Init /\ [][Next]_vars

(***************************************************************************)
(* Properties.                                                             *)
(***************************************************************************)
\* What a client can observe of the function by walking it: the variable
\* list, the block list, every block's instruction list and every
\* instruction with its operands.
Shape ==
    [vars_list |-> func.vars_list,
     code_list |-> func.code_list,
     insns |-> [c \in DOMAIN code |-> code[c].insns],
     insn |-> insn]

\* The step is a call of Optimize that returned.
OptimizeReturned == ops' = ops + 1 /\ last'.call.op = "Optimize" /\ status' = "ok"

\* C1: Optimize terminates on every function the builders can construct,
\* diamond joins and self-jumps included: no call of Optimize enters a loop
\* whose exit condition can never become true.
C1_OptimizeTerminates == status # "hang"

\* C2: Optimize reaches a fixed point: a call of Optimize that immediately
\* follows a call of Optimize returns false and leaves the variable list, the
\* block list, every instruction list and every operand unchanged.
C2_OptimizeFixedPoint ==
    [][(OptimizeReturned /\ last.call.op = "Optimize") => (~last'.ret /\ Shape' = Shape)]_vars

\* C3: Optimize returns true if and only if the call mutated the function
\* (deleted a variable, an instruction or a block, or rewrote an operand).
C3_OptimizeReturnsChanged ==
    [][OptimizeReturned => (last'.ret <=> Shape' # Shape)]_vars

\* C4: use-set consistency: after every public operation, an instruction is
\* in a variable's use-set exactly if it has the variable in some operand
\* position.
C4_UseSetConsistency ==
    status = "ok" =>
        \A v \in DOMAIN var, i \in DOMAIN insn :
            i \in var[v].used_at <=> v \in OperandVars(insn[i])

\* C5: assignment-list consistency: after every public operation, every live
\* expression is in the assignment list of its destination exactly once, and
\* every element of a variable's assignment list is a live expression whose
\* destination is that variable.
C5_AssignmentListConsistency ==
    status = "ok" =>
        /\ \A i \in DOMAIN insn :
               insn[i].is_expr =>
                   /\ insn[i].dest \in DOMAIN var
                   /\ Cardinality({k \in 1..Len(var[insn[i].dest].assigned_at) :
                                      var[insn[i].dest].assigned_at[k] = i}) = 1
        /\ \A v \in DOMAIN var :
               \A k \in 1..Len(var[v].assigned_at) :
                   /\ var[v].assigned_at[k] \in DOMAIN insn
                   /\ insn[var[v].assigned_at[k]].is_expr
                   /\ insn[var[v].assigned_at[k]].dest = v

\* C5 is exercised: SSA conversion has renamed an assignment and inserted a
\* combinator, and a deletion has then removed an instruction.
C5_Witness ==
    /\ status = "ok"
    /\ func.enforce_ssa
    /\ last.call.op \in {"DeleteInstruction", "DeleteVariable", "DeleteBlock", "Optimize"}
    /\ \E i \in DOMAIN insn : insn[i].is_expr /\ insn[i].type = "COMBINATOR"
    /\ Cardinality(DOMAIN insn) < alloc.insn

\* C6: pred/succ symmetry: after every public operation, for all blocks a
\* and b of the function, b is a successor of a exactly if a is a
\* predecessor of b.
C6_PredSuccSymmetry ==
    status = "ok" =>
        \A c1 \in DOMAIN code, c2 \in DOMAIN code :
            c2 \in code[c1].succ <=> c1 \in code[c2].pred

\* C6 is exercised: Optimize has spliced a block into its predecessor and
\* the function still has an edge.
C6_Witness ==
    /\ status = "ok"
    /\ last.call.op = "Optimize"
    /\ Cardinality(DOMAIN code) < alloc.code
    /\ \E c1 \in DOMAIN code, c2 \in DOMAIN code :
           c2 \in code[c1].succ /\ c1 \in code[c2].pred /\ Len(code[c1].insns) > 2

\* C7: combinator arity: after every public operation, every combinator of
\* a block c has as many entries as c has predecessors, and the entries'
\* predecessors are distinct members of c's predecessor set.
C7_CombinatorArity ==
    status = "ok" =>
        \A i \in DOMAIN insn :
            (insn[i].is_expr /\ insn[i].type = "COMBINATOR" /\ insn[i].parent \in DOMAIN code) =>
                /\ Len(insn[i].prev) = Cardinality(code[insn[i].parent].pred)
                /\ Range(insn[i].prev) \subseteq code[insn[i].parent].pred
                /\ Cardinality(Range(insn[i].prev)) = Len(insn[i].prev)

\* C8: terminator ordering: after every public operation, in no block does
\* an expression, combinator, call or return appear after a Jump or Branch
\* of the same block.
C8_TerminatorOrdering ==
    status = "ok" =>
        \A c \in DOMAIN code :
            \A j \in 1..Len(code[c].insns), k \in 1..Len(code[c].insns) :
                (j < k /\ code[c].insns[j] \in DOMAIN insn /\ code[c].insns[k] \in DOMAIN insn
                   /\ IsJumpOrBranch(insn[code[c].insns[j]]))
                    => IsJumpOrBranch(insn[code[c].insns[k]])

\* C8 is exercised: Optimize has spliced a block into its predecessor, and
\* the merged block ends in a Branch followed by a Jump.
C8_Witness ==
    /\ status = "ok"
    /\ last.call.op = "Optimize"
    /\ last.ret
    /\ Cardinality(DOMAIN code) < alloc.code
    /\ \E c \in DOMAIN code :
           /\ Len(code[c].insns) > 2
           /\ insn[code[c].insns[Len(code[c].insns) - 1]].type = "BRANCH"
           /\ insn[code[c].insns[Len(code[c].insns)]].type = "JUMP"

\* Prim of an operand in the current state; "NONE" for a freed variable.
PrimOf(o) ==
    IF o.is_const THEN o.prim_type
    ELSE IF o.var \in DOMAIN var THEN var[o.var].prim_type ELSE "NONE"

\* C9: type agreement: after every public operation, every Binary has both
\* operands and its destination of one Prim, every Unary other than Mov,
\* Seqz, Snez has operand and destination of one Prim, every Seqz/Snez has a
\* Bool destination, every combinator entry has the destination's Prim, and
\* every Branch condition is Bool.
C9_TypeAgreement ==
    status = "ok" =>
        \A i \in DOMAIN insn :
            LET rec == insn[i]
                dprim == IF rec.dest \in DOMAIN var THEN var[rec.dest].prim_type ELSE "NONE"
            IN /\ (rec.is_expr /\ rec.type \in {"BINARY", "COMBINATOR"}) =>
                      \A k \in 1..Len(rec.ops) : PrimOf(rec.ops[k]) = dprim
               /\ (rec.is_expr /\ rec.type = "UNARY" /\ rec.oper \notin {"MOV", "SEQZ", "SNEZ"}) =>
                      PrimOf(rec.ops[1]) = dprim
               /\ (rec.is_expr /\ rec.type = "UNARY" /\ rec.oper \in {"SEQZ", "SNEZ"}) =>
                      dprim = "BOOL"
               /\ (~rec.is_expr /\ rec.type = "BRANCH") => PrimOf(rec.ops[1]) = "BOOL"

\* C10: once ToSsa has returned, every variable of the function has at most
\* one element in its assignment list, and this stays so under later builder
\* operations and Optimize calls while enforce_ssa is set.
C10_SsaSingleAssignment ==
    (status = "ok" /\ func.enforce_ssa) =>
        \A v \in Range(func.vars_list) :
            v \in DOMAIN var /\ Len(var[v].assigned_at) <= 1

\* C10 is exercised: after ToSsa a later builder call or Optimize has acted
\* and an assigned variable is still there.
C10_Witness ==
    /\ status = "ok"
    /\ func.enforce_ssa
    /\ last.call.op \in {"Optimize", "AddUnary", "AddBinary", "AddUndefined", "AddCombinator"}
    /\ \E v \in DOMAIN var : Len(var[v].assigned_at) = 1

\* The last call, the state it was made in (pre) and the state it left.
Called(op) == last.call.op = op

\* C11: ToSsa is idempotent: a call of ToSsa on a function whose enforce_ssa
\* flag is already set changes no variable, block, instruction, operand,
\* use-set or assignment list, and returns normally.
C11_ToSsaIdempotent == (Called("ToSsa") /\ pre.func.enforce_ssa) => St = pre

\* ToSsa was called on a function in SSA form that holds a combinator.
C11_Witness ==
    /\ Called("ToSsa")
    /\ pre.func.enforce_ssa
    /\ \E i \in DOMAIN pre.insn : pre.insn[i].is_expr /\ pre.insn[i].type = "COMBINATOR"

\* C12: ToSsa leaves the function's name, its argument count and argument
\* handles, the identity of its entry block, the set of blocks, and every
\* block's predecessor and successor sets unchanged.
C12_ToSsaFrame ==
    (Called("ToSsa") /\ status = "ok") =>
        /\ func.name = pre.func.name
        /\ func.args = pre.func.args
        /\ func.entry = pre.func.entry
        /\ func.code_list = pre.func.code_list
        /\ DOMAIN code = DOMAIN pre.code
        /\ \A c \in DOMAIN code :
              code[c].pred = pre.code[c].pred /\ code[c].succ = pre.code[c].succ

\* ToSsa converted a function of several blocks and inserted a combinator.
C12_Witness ==
    /\ Called("ToSsa")
    /\ status = "ok"
    /\ ~pre.func.enforce_ssa
    /\ \E c \in DOMAIN code : code[c].pred # {}
    /\ \E i \in DOMAIN insn : i \notin DOMAIN pre.insn /\ insn[i].type = "COMBINATOR"

\* The instruction record names variable v: in an operand position or as
\* its destination.
Names(rec, v) == v \in OperandVars(rec) \/ (rec.is_expr /\ rec.dest = v)

\* The instructions a walk of the function visits.
Listed == UNION {Range(code[c].insns) : c \in Range(func.code_list) \cap DOMAIN code}

\* C13: after DeleteVariable(v), reached by any sequence of public
\* operations, no remaining instruction of the function has v in an operand
\* position or as its destination, and v is no longer in the function's
\* variable list.
C13_DeleteVariableNoReference ==
    (Called("DeleteVariable") /\ status = "ok") =>
        /\ last.call.v \notin Range(func.vars_list)
        /\ last.call.v \notin DOMAIN var
        /\ Listed \subseteq DOMAIN insn
        /\ \A i \in DOMAIN insn : ~Names(insn[i], last.call.v)

\* Operand o names variable v.
NamesVar(o, v) == ~o.is_const /\ o.var = v

\* C14: ReplaceVariable(v, k) with k a constant leaves v's use-set empty and
\* every former reader of v holding k in each position that named v, while v
\* stays in the variable list, v's assignment list is unchanged and no
\* instruction is deleted.
C14_ReplaceByConstant ==
    (Called("ReplaceVariable") /\ last.call.os[1].is_const /\ status = "ok") =>
        /\ last.call.v \in DOMAIN var
        /\ var[last.call.v].used_at = {}
        /\ func.vars_list = pre.func.vars_list
        /\ var[last.call.v].assigned_at = pre.var[last.call.v].assigned_at
        /\ DOMAIN insn = DOMAIN pre.insn
        /\ \A c \in DOMAIN pre.code : c \in DOMAIN code /\ code[c].insns = pre.code[c].insns
        /\ \A i \in DOMAIN pre.insn : \A j \in 1..Len(pre.insn[i].ops) :
              NamesVar(pre.insn[i].ops[j], last.call.v) => insn[i].ops[j] = last.call.os[1]

\* C15: ReplaceVariable(v, r) rewrites exactly the operand positions that
\* name v: in every instruction of v's use-set, call argument lists and
\* return values included, every operand that is a constant or names another
\* variable is left unchanged, and the use-sets of the variables other than v
\* and r are left unchanged.
C15_ReplaceOnlyNamed ==
    (Called("ReplaceVariable") /\ status = "ok") =>
        /\ \A i \in pre.var[last.call.v].used_at \cap DOMAIN pre.insn :
              /\ i \in DOMAIN insn
              /\ \A j \in 1..Len(pre.insn[i].ops) :
                    ~NamesVar(pre.insn[i].ops[j], last.call.v) => insn[i].ops[j] = pre.insn[i].ops[j]
        /\ \A w \in DOMAIN pre.var :
              (w # last.call.v /\ ~NamesVar(last.call.os[1], w)) =>
                  (w \in DOMAIN var /\ var[w].used_at = pre.var[w].used_at)

\* C16: RecalculateFlow is idempotent: calling it again on the state it left
\* yields the same predecessor and successor sets for every block, and a call
\* modifies nothing but those sets.
C16_RecalculateFlowIdempotent ==
    (Called("RecalculateFlow") /\ status = "ok") =>
        /\ ir_func_recalc_flow(St) = St
        /\ func = pre.func /\ var = pre.var /\ insn = pre.insn /\ alloc = pre.alloc
        /\ DOMAIN code = DOMAIN pre.code
        /\ \A c \in DOMAIN code :
              code[c].name = pre.code[c].name /\ code[c].insns = pre.code[c].insns

\* RecalculateFlow changed the sets of a function whose sets were stale.
C16_Witness ==
    /\ Called("RecalculateFlow")
    /\ status = "ok"
    /\ \E c \in DOMAIN code : code[c].succ # pre.code[c].succ /\ code[c].succ # {}

\* C17: DeleteInstruction(i) removes i from the use-set of every variable
\* that i names in an operand position, for every instruction kind, removes i
\* from its block's instruction list and, if i is an expression, from its
\* destination's assignment list; it leaves every block's predecessor and
\* successor sets unchanged.
C17_DeleteInstructionUnlinks ==
    (Called("DeleteInstruction") /\ status = "ok") =>
        /\ \A w \in OperandVars(pre.insn[last.call.v]) \cap DOMAIN var :
              last.call.v \notin var[w].used_at
        /\ \A c \in DOMAIN code : last.call.v \notin Range(code[c].insns)
        /\ \A w \in DOMAIN var : last.call.v \notin Range(var[w].assigned_at)
        /\ DOMAIN code = DOMAIN pre.code
        /\ \A c \in DOMAIN code :
              code[c].pred = pre.code[c].pred /\ code[c].succ = pre.code[c].succ

\* The combinators of block s in the state before the last call.
PreCombinators(s) ==
    {e \in Range(pre.code[s].insns) \cap DOMAIN pre.insn :
        pre.insn[e].is_expr /\ pre.insn[e].type = "COMBINATOR"}

\* What DeleteBlock(c) owes combinator e (record rec before the call): with
\* one entry left it is gone and every read of its destination holds the
\* remaining operand; otherwise it stays and has lost the entry of c only.
CombinatorUpdated(e, rec, c) ==
    LET keep == {k \in 1..Len(rec.prev) : rec.prev[k] # c}
    IN IF Cardinality(keep) = 1
       THEN /\ e \notin DOMAIN insn
            /\ \A i \in DOMAIN insn : rec.dest \notin OperandVars(insn[i])
            /\ \A i \in DOMAIN insn \cap DOMAIN pre.insn :
                  Len(insn[i].ops) = Len(pre.insn[i].ops) =>
                      \A j \in 1..Len(insn[i].ops) :
                          NamesVar(pre.insn[i].ops[j], rec.dest) =>
                              insn[i].ops[j] = rec.ops[CHOOSE k \in keep : TRUE]
       ELSE /\ e \in DOMAIN insn
            /\ e \in Range(code[rec.parent].insns)
            /\ insn[e].prev = SelectSeq(rec.prev, LAMBDA p : p # c)
            /\ Len(insn[e].ops) = Len(insn[e].prev)

SecondAssignment ==
    /\ last.call.op \in {"AddUnary", "AddBinary", "AddUndefined", "AddCombinator"}
    /\ pre.var[last.call.v].assigned_at # <<>>

\* The builders' other two verifications, on the state before the call: the
\* block does not end in a Jump or Branch and the types agree.
PassesOtherChecks ==
    /\ ~after_terminator(pre, last.call.c)
    /\ last.call.op = "AddUnary" =>
          /\ last.call.oper \in {"SNEZ", "SEQZ"} => pre.var[last.call.v].prim_type = "BOOL"
          /\ last.call.oper \notin {"SNEZ", "SEQZ", "MOV"} =>
                operand_prim(pre, last.call.os[1]) = pre.var[last.call.v].prim_type
    /\ last.call.op \in {"AddBinary", "AddCombinator"} =>
          \A k \in 1..Len(last.call.os) :
              operand_prim(pre, last.call.os[k]) = pre.var[last.call.v].prim_type

\* The call was rejected: abort, nothing appended to the block or to the
\* destination's assignment list.
Rejected ==
    /\ status = "abort"
    /\ code[last.call.c].insns = pre.code[last.call.c].insns
    /\ var[last.call.v].assigned_at = pre.var[last.call.v].assigned_at

\* The call succeeded: the new expression is the last of the block and the
\* destination's assignment list grew by it.
Appended ==
    /\ status = "ok"
    /\ alloc.insn \notin DOMAIN pre.insn
    /\ code[last.call.c].insns = Append(pre.code[last.call.c].insns, alloc.insn)
    /\ var[last.call.v].assigned_at = Append(pre.var[last.call.v].assigned_at, alloc.insn)

C20_ReplaceBySelfAborts ==
    Called("ReplaceVariable") =>
        IF NamesVar(last.call.os[1], last.call.v)
        THEN status = "abort" /\ St = [pre EXCEPT !.status = "abort"]
        ELSE status # "abort"

C20_Witness ==
    /\ Called("ReplaceVariable")
    /\ NamesVar(last.call.os[1], last.call.v)
    /\ pre.var[last.call.v].used_at # {}
    /\ status = "abort"

\* Scenario C: entry: v = Mov 1; Jump L.  L: v = Add(v, 1); Jump L2.
\* L2: Return v.  (v is var_x, L is code_2, L2 is code_3.)
ScenarioC ==
    Invoke("Build", <<Fresh,
        <<CreateVariableK("S32"), CreateCodeBlockK, CreateCodeBlockK,
          AddUnaryK(code_entry, var_x, "MOV", S32(1)), AddJumpK(code_entry, code_2),
          AddBinaryK(code_2, var_x, "ADD", Var(var_x), S32(1)), AddJumpK(code_2, code_3),
          AddReturn1K(code_3, Var(var_x))>>>>)

\* The last call was ToSsa, it returned, and the function before it was p.
ToSsaReturnedOn(p) == Called("ToSsa") /\ status = "ok" /\ pre = p

\* Some instruction of block c satisfies P.
SomeInsn(c, P(_)) == \E i \in Range(code[c].insns) \cap DOMAIN insn : P(insn[i])

IsCombinator(rec) == rec.is_expr /\ rec.type = "COMBINATOR"

\* Scenario C after ToSsa: the two assignments of v have distinct fresh
\* destinations and the Return in L2 reads the name assigned in L.
ScenarioCRenamed ==
    \E m \in Range(code[code_entry].insns), n \in Range(code[code_2].insns),
       r \in Range(code[code_3].insns) :
        /\ insn[m].is_expr /\ insn[m].type = "UNARY"
        /\ insn[n].is_expr /\ insn[n].type = "BINARY"
        /\ ~insn[r].is_expr /\ insn[r].type = "RETURN"
        /\ insn[m].dest # insn[n].dest
        /\ insn[m].dest \notin DOMAIN pre.var
        /\ insn[n].dest \notin DOMAIN pre.var
        /\ insn[r].ops = <<Var(insn[n].dest)>>

\* C21: Scenario C: after ToSsa block L contains a combinator whose
\* destination is an SSA name of v, each of the two assignments of v has a
\* distinct fresh destination, and the Return in L2 reads the name assigned
\* in L.
C21_ScenarioC ==
    ToSsaReturnedOn(ScenarioC) =>
        /\ SomeInsn(code_2, LAMBDA rec : IsCombinator(rec) /\ rec.dest \notin DOMAIN pre.var \ {var_x})
        /\ ScenarioCRenamed

\* C21 as the code has it: no block of the chain has two predecessors, so
\* ToSsa inserts no combinator; the Add in L reads the name assigned in
\* entry, and the rest is as stated.
C21_ScenarioCNoCombinator ==
    ToSsaReturnedOn(ScenarioC) =>
        /\ \A i \in DOMAIN insn : ~IsCombinator(insn[i])
        /\ ScenarioCRenamed
        /\ \E m \in Range(code[code_entry].insns), n \in Range(code[code_2].insns) :
              /\ insn[m].is_expr /\ insn[m].type = "UNARY"
              /\ insn[n].is_expr /\ insn[n].type = "BINARY"
              /\ insn[n].ops[1] = Var(insn[m].dest)

C21_Witness == ToSsaReturnedOn(ScenarioC) /\ func.enforce_ssa

\* Variable v of function state st has exactly one assignment, and it is a
\* Unary with a constant operand or a Binary with two constant operands.
Foldable(st, v) ==
    /\ Len(st.var[v].assigned_at) = 1
    /\ st.var[v].assigned_at[1] \in DOMAIN st.insn
    /\ LET rec == st.insn[st.var[v].assigned_at[1]]
       IN \/ rec.type = "UNARY" /\ rec.ops[1].is_const
          \/ rec.type = "BINARY" /\ rec.ops[1].is_const /\ rec.ops[2].is_const

\* The constant the assignment of a foldable variable evaluates to.
FoldValue(st, v) ==
    LET rec == st.insn[st.var[v].assigned_at[1]]
    IN IF rec.type = "UNARY"
       THEN IF rec.oper = "MOV" THEN ir_cast(st.var[v].prim_type, rec.ops[1])
            ELSE ir_calc1(rec.oper, rec.ops[1])
       ELSE ir_calc2(rec.oper, rec.ops[1], rec.ops[2])

OptimizeDone == Called("Optimize") /\ status = "ok"

\* No variable of the function is left foldable.
NoFoldableLeft == \A v \in Range(func.vars_list) \cap DOMAIN var : ~Foldable(St, v)

\* Every variable that was foldable before the call is gone with its
\* assignment, and what is left of its reads holds the constant.
FoldedAway ==
    \A v \in DOMAIN pre.var :
        Foldable(pre, v) =>
            /\ v \notin DOMAIN var
            /\ v \notin Range(func.vars_list)
            /\ pre.var[v].assigned_at[1] \notin DOMAIN insn
            /\ \A i \in DOMAIN insn \cap DOMAIN pre.insn :
                  \A k \in 1..Len(pre.insn[i].ops) :
                      (NamesVar(pre.insn[i].ops[k], v) /\ Len(insn[i].ops) = Len(pre.insn[i].ops)) =>
                          insn[i].ops[k] = FoldValue(pre, v)

\* C22: after Optimize returns no variable of the function has exactly one
\* assignment that is a Unary with a constant operand or a Binary with two
\* constant operands; every such variable has been deleted together with its
\* assignment, and every former read of it holds the constant result.
C22_ConstantFolding == OptimizeDone => (NoFoldableLeft /\ FoldedAway)

\* A Branch whose condition is the constant true / the constant false.
ConstTrueBranch(rec) ==
    ~rec.is_expr /\ rec.type = "BRANCH" /\ rec.ops[1].is_const /\ rec.ops[1].constl % 2 = 1
ConstFalseBranch(rec) ==
    ~rec.is_expr /\ rec.type = "BRANCH" /\ rec.ops[1].is_const /\ rec.ops[1].constl % 2 = 0

\* Control does not pass the instruction: a Jump, a Return or a constant-true
\* Branch.
EndsFlow(rec) == ~rec.is_expr /\ (rec.type \in {"JUMP", "RETURN"} \/ ConstTrueBranch(rec))

\* The blocks that the Jump and Branch instructions of block c target in
\* function state st.  With `live` only the instructions control can reach
\* count: those up to the first that ends the flow, constant-false Branches
\* excepted.
Targets(st, c, live) ==
    LET is == st.code[c].insns
        rec(k) == st.insn[is[k]]
        ends == {k \in 1..Len(is) : EndsFlow(rec(k))}
        first == IF ends = {} THEN Len(is) ELSE Min(ends)
    IN {rec(k).target :
           k \in {j \in 1..Len(is) :
                     /\ IsJumpOrBranch(rec(j))
                     /\ live => (j <= first /\ ~ConstFalseBranch(rec(j)))}}
       \cap DOMAIN st.code

RECURSIVE Reach(_, _, _)
\* The blocks reachable from the blocks S along Targets.
Reach(st, S, live) ==
    LET N == S \cup UNION {Targets(st, c, live) : c \in S}
    IN IF N = S THEN S ELSE Reach(st, N, live)

ReachableFromEntry(st, live) == Reach(st, {st.func.entry} \cap DOMAIN st.code, live)

\* C23: after Optimize returns every block of the function is reachable from
\* the entry block along the targets of the remaining Jump and Branch
\* instructions, and a block that was reachable only through a
\* constant-false Branch or through an instruction following a Jump, Return
\* or constant-true Branch has been deleted.  (The function has its entry
\* block: a client that deleted it left nothing to be reachable from.)
C23_DeadBlocks ==
    (OptimizeDone /\ pre.func.entry \in DOMAIN pre.code) =>
        /\ Range(func.code_list) \subseteq ReachableFromEntry(St, FALSE)
        /\ \A c \in DOMAIN pre.code \ ReachableFromEntry(pre, TRUE) :
              c \notin DOMAIN code /\ c \notin Range(func.code_list)

C23_Witness ==
    /\ OptimizeDone /\ pre.func.entry \in DOMAIN pre.code
    /\ Cardinality(DOMAIN code) > 1
    /\ \E c \in ReachableFromEntry(pre, FALSE) \ ReachableFromEntry(pre, TRUE) :
          \E i \in DOMAIN pre.insn : ConstFalseBranch(pre.insn[i]) /\ pre.insn[i].target = c

\* Block c of function state st is straight-line code that ends in a Jump
\* to block t, its only Jump or Branch.
EndsInJumpTo(st, c, t) ==
    LET is == st.code[c].insns
    IN /\ is # <<>>
       /\ st.insn[is[Len(is)]].type = "JUMP" /\ ~st.insn[is[Len(is)]].is_expr
       /\ st.insn[is[Len(is)]].target = t
       /\ \A k \in 1..(Len(is) - 1) : ~IsJumpOrBranch(st.insn[is[k]])

\* Function state st is the chain entry -> L -> tail with no other edges.
IsChain(st) ==
    /\ Len(st.func.code_list) = 3
    /\ Range(st.func.code_list) = DOMAIN st.code
    /\ st.func.code_list[1] = st.func.entry
    /\ LET e == st.func.code_list[1]
           l == st.func.code_list[2]
           t == st.func.code_list[3]
       IN /\ st.code[e].pred = {} /\ st.code[e].succ = {l}
          /\ st.code[l].pred = {e} /\ st.code[l].succ = {t}
          /\ st.code[t].pred = {l} /\ st.code[t].succ = {}
          /\ EndsInJumpTo(st, e, l) /\ EndsInJumpTo(st, l, t)
          /\ \A i \in Range(st.code[t].insns) : ~IsJumpOrBranch(st.insn[i])

\* The instructions of the three blocks of a chain in order.
ChainInsns(st) ==
    st.code[st.func.code_list[1]].insns \o st.code[st.func.code_list[2]].insns
        \o st.code[st.func.code_list[3]].insns

\* No block has a single successor whose single predecessor it is.
NoMergeablePair ==
    \A a \in Range(func.code_list) \cap DOMAIN code, b \in Range(func.code_list) \cap DOMAIN code :
        ~(code[a].succ = {b} /\ code[b].pred = {a})

\* The chain before the call is now the single block entry: it holds what
\* is left of the instructions of the three blocks, in their order, and
\* the connecting jumps are gone.
ChainMerged ==
    /\ func.code_list = <<pre.func.entry>>
    /\ DOMAIN code = {pre.func.entry}
    /\ code[pre.func.entry].insns = SelectSeq(ChainInsns(pre), LAMBDA i : i \in DOMAIN insn)
    /\ \A i \in DOMAIN insn : ~IsJumpOrBranch(insn[i]) /\ insn[i].parent = pre.func.entry

\* C24: after Optimize returns there is no pair of blocks a, b with
\* a.successors = {b} and b.predecessors = {a}; a straight-line chain
\* entry -> L -> tail with no other edges is merged into the single block
\* entry holding the instructions of all three in order without the
\* connecting jumps, and the block list has length 1.
C24_BlockMerging ==
    OptimizeDone => (NoMergeablePair /\ (IsChain(pre) => ChainMerged))

C24_Witness ==
    /\ OptimizeDone /\ IsChain(pre)
    /\ Len(code[pre.func.entry].insns) >= 3

\* The last call was one of the four passes and it returned.
PassReturned ==
    last.call.op \in {"UnusedVars", "ConstProp", "DeadCode", "Branches"} /\ status = "ok"

\* C25: each of the passes UnusedVars, ConstProp, DeadCode and Branches is
\* idempotent: on every function state a pass returned on, running the same
\* pass again immediately returns false and leaves the function unchanged.
C25_PassesIdempotent ==
    PassReturned => Invoke("Call", <<St, last.call>>) = [st |-> St, ret |-> FALSE]

\* C26: names are unique per function, whatever sequence of CreateVariable,
\* CreateCodeBlock, DeleteVariable, DeleteBlock, ToSsa and Optimize made the
\* lists: no two variables of func.vars have the same name, and no two blocks
\* of func.codes have the same name.
C26_UniqueNames ==
    status = "ok" =>
        /\ \A i, j \in DOMAIN func.vars_list :
              (i # j /\ {func.vars_list[i], func.vars_list[j]} \subseteq DOMAIN var)
                  => var[func.vars_list[i]].name # var[func.vars_list[j]].name
        /\ \A i, j \in DOMAIN func.code_list :
              (i # j /\ {func.code_list[i], func.code_list[j]} \subseteq DOMAIN code)
                  => code[func.code_list[i]].name # code[func.code_list[j]].name


\* C27: after RecalculateFlow returns, for all blocks a and b of the
\* function, b is a successor of a exactly if a's instruction list contains a
\* Jump or a Branch whose target is b, and a is a predecessor of b exactly
\* then; an edge that was present before the call and corresponds to no such
\* instruction is gone.
C27_RecalculateFlowEdges ==
    (Called("RecalculateFlow") /\ status = "ok") =>
        \A a, b \in Range(func.code_list) :
            /\ b \in code[a].succ <=> b \in Targets(St, a, FALSE)
            /\ a \in code[b].pred <=> b \in Targets(St, a, FALSE)

\* RecalculateFlow dropped an edge that no instruction stood for, and kept one
\* that a Jump or Branch stands for.
C27_Witness ==
    /\ Called("RecalculateFlow")
    /\ status = "ok"
    /\ \E a, b \in Range(func.code_list) :
          /\ b \in pre.code[a].succ \/ a \in pre.code[b].pred
          /\ b \notin Targets(pre, a, FALSE)
          /\ b \notin code[a].succ /\ a \notin code[b].pred
    /\ \E a, b \in Range(func.code_list) : b \in code[a].succ

RECURSIVE SuccReach(_, _, _)
\* The blocks reachable from the blocks S along successor edges without
\* entering a block of `skip`.
SuccReach(st, S, skip) ==
    LET T == (S \cup UNION {st.code[c].succ \cap DOMAIN st.code : c \in S}) \ skip
    IN IF T = S THEN S ELSE SuccReach(st, T, skip)

\* The CFG of st: every listed block is live and reachable from the head of the
\* block list, and the predecessor sets mirror the successor sets.
WholeCfg(st) ==
    /\ st.func.code_list # <<>>
    /\ Range(st.func.code_list) = DOMAIN st.code
    /\ SuccReach(st, {list_head(st.func.code_list)}, {}) = DOMAIN st.code
    /\ \A a, b \in DOMAIN st.code : b \in st.code[a].succ <=> a \in st.code[b].pred
    /\ \A a \in DOMAIN st.code : st.code[a].succ \subseteq DOMAIN st.code

\* a dominates b: every path from the entry to b passes through a.
Dominates(st, a, b) ==
    a = b \/ b \notin SuccReach(st, {list_head(st.func.code_list)} \ {a}, {a})

\* The immediate dominator of the non-entry block b: the strict dominator of b
\* that every strict dominator of b dominates.
ImmediateDominator(st, b) ==
    LET sd == {a \in DOMAIN st.code : a # b /\ Dominates(st, a, b)}
    IN CHOOSE a \in sd : \A x \in sd : Dominates(st, x, a)

\* The idom values compute_dominance leaves are the immediate dominators.
IdomCorrect(st) ==
    LET d == compute_dominance(st)
        entry == list_head(st.func.code_list)
    IN /\ ~d.ub
       /\ d.idom[d.dfs_index[entry]] = -1
       /\ \A b \in DOMAIN st.code \ {entry} :
             /\ d.idom[d.dfs_index[b]] \in DOMAIN d.code
             /\ d.code[d.idom[d.dfs_index[b]]] = ImmediateDominator(st, b)

\* ToSsa ran its conversion on the function `pre`.
ToSsaConverted == Called("ToSsa") /\ pre.status = "ok" /\ ~pre.func.enforce_ssa

\* C28: for every CFG in which all blocks are reachable from the entry, the
\* idom that compute_dominance (run by ToSsa) computes for each non-entry block
\* is that block's immediate dominator, and the idom of the entry is undefined
\* ((size_t)-1).
C28_IdomIsImmediateDominator ==
    (ToSsaConverted /\ WholeCfg(pre)) => IdomCorrect(pre)

\* usesVar as insert_combinators computes it for the variable v, by node index.
UsesVar(st, d, v) ==
    LET d1 == [d EXCEPT !.uses_var = [i \in DOMAIN d.uses_var |-> FALSE], !.visited = {}]
        d2 == mark_uses(st, d1, SetToSeq(st.var[v].used_at))
    IN mark_defs(st, d2, st.var[v].assigned_at).uses_var

RECURSIVE FrontierClosure(_, _, _)
\* The closure of the node set W under adding frontier[b] of each node b of W
\* that receives a combinator (usesVar[b] holds).
FrontierClosure(d, uses, W) ==
    LET T == W \cup UNION {d.frontier[i] : i \in {j \in W : uses[j]}}
    IN IF T = W THEN W ELSE FrontierClosure(d, uses, T)

\* The blocks that are to receive a combinator for v: those of the iterated
\* dominance frontier of the blocks assigning v for which usesVar holds.
PhiBlocks(st, v) ==
    LET d == compute_dominance(st)
        uses == UsesVar(st, d, v)
        start == UNION {d.frontier[d.dfs_index[st.insn[e].parent]] :
                           e \in Range(st.var[v].assigned_at)}
    IN {d.code[i] : i \in {j \in FrontierClosure(d, uses, start) : uses[j]}}

\* The combinators ToSsa inserted in block b.
Inserted(b) ==
    {i \in Range(code[b].insns) : i \notin DOMAIN pre.insn /\ IsCombinator(insn[i])}

\* ToSsa converted the function `pre` and returned.
ToSsaReturned == ToSsaConverted /\ status = "ok"

\* C29: phi placement runs to a fixed point: after ToSsa every block holds one
\* inserted combinator for each original variable v such that the block
\* belongs to the iterated dominance frontier of the blocks assigning v (the
\* closure under adding frontier[b] of each block that received a combinator)
\* and usesVar holds for it, blocks that entered the worklist only because of
\* an earlier combinator included.
C29_PhiPlacementFixedPoint ==
    ToSsaReturned =>
        \A b \in DOMAIN pre.code :
            Cardinality(Inserted(b)) =
                Cardinality({v \in Range(pre.func.vars_list) : b \in PhiBlocks(pre, v)})

\* Every assigned variable of st has an assignment in the first block, so the
\* rename walk has a defined current name at the end of every block it visits.
AssignedInEntry(st) ==
    \A v \in Range(st.func.vars_list) :
        st.var[v].assigned_at # <<>> =>
            \E e \in Range(st.var[v].assigned_at) :
                st.insn[e].parent = list_head(st.func.code_list)

\* C30: phi operand renaming: after ToSsa, for every combinator that ToSsa
\* inserted and every predecessor p of its block that the rename walk visited
\* with a defined current name, the combinator's entry for p is a variable
\* operand (not the initial constant-0 placeholder) naming a variable made by
\* ToSsa, and the combinator is in that variable's use-set.
C30_PhiOperandRenaming ==
    (ToSsaReturned /\ WholeCfg(pre) /\ AssignedInEntry(pre)) =>
        \A b \in DOMAIN pre.code : \A i \in Inserted(b) :
            \A k \in 1..Len(insn[i].ops) :
                LET o == insn[i].ops[k]
                IN /\ ~o.is_const
                   /\ o.var \in DOMAIN var \ DOMAIN pre.var
                   /\ i \in var[o.var].used_at

\* The instructions of the listed blocks of st that read v in a position that
\* replace_insn_var rewrites.
Readers(st, v) ==
    {i \in UNION {Range(st.code[c].insns) : c \in Range(st.func.code_list) \cap DOMAIN st.code} :
        /\ i \in DOMAIN st.insn
        /\ st.insn[i].type \in {"BINARY", "UNARY", "BRANCH", "RETURN", "CALL_DIRECT", "CALL_PTR"}
        /\ \E k \in 1..Len(st.insn[i].ops) : NamesVar(st.insn[i].ops[k], v)}

\* C31: during ToSsa's rename walk the reads of the variable v being renamed
\* are rewritten only while the current name is defined: an instruction that
\* reads a variable without any assignment (a function parameter, say) is
\* left reading it and stays in its use-set, and the walk never uses the
\* undefined name (ToSsa returns).
C31_ReadBeforeAssignmentKept ==
    (ToSsaConverted /\ WholeCfg(pre)) =>
        \A v \in Range(pre.func.vars_list) :
            pre.var[v].assigned_at = <<>> =>
                \A i \in Readers(pre, v) \cap pre.var[v].used_at :
                    /\ status = "ok"
                    /\ i \in Readers(St, v)
                    /\ i \in var[v].used_at

\* The listed instructions of st that name v in an operand position.
OperandReaders(st, v) ==
    {i \in UNION {Range(st.code[c].insns) : c \in Range(st.func.code_list) \cap DOMAIN st.code} :
        i \in DOMAIN st.insn /\ v \in OperandVars(st.insn[i])}

\* The variables the last call removed from the variable list.
DeletedVars == Range(pre.func.vars_list) \ Range(func.vars_list)

UnusedVarsReturned == Called("UnusedVars") /\ status = "ok"

\* C32: after the UnusedVars pass returns, every variable remaining in
\* func.vars has a non-empty use-set, the pass returned true exactly if it
\* deleted at least one variable, and a variable read only by assignments of
\* deleted variables is deleted in the same pass.
C32_UnusedVars ==
    UnusedVarsReturned =>
        /\ \A v \in Range(func.vars_list) : v \in DOMAIN var /\ var[v].used_at # {}
        /\ last.ret <=> DeletedVars # {}
        /\ \A v \in Range(pre.func.vars_list) :
              (/\ OperandReaders(pre, v) # {}
               /\ \A i \in OperandReaders(pre, v) :
                     pre.insn[i].is_expr /\ pre.insn[i].dest \in DeletedVars)
                  => v \in DeletedVars

\* The pass deleted a variable and, with its assignment, a variable that only
\* that assignment read.
C32_Witness ==
    /\ UnusedVarsReturned
    /\ last.ret
    /\ \E v \in DeletedVars :
          /\ OperandReaders(pre, v) # {}
          /\ \A i \in OperandReaders(pre, v) :
                pre.insn[i].is_expr /\ pre.insn[i].dest \in DeletedVars \ {v}

\* C33: after the DeadCode pass returns, in every remaining block no
\* instruction follows a Jump, a Return or a Branch whose condition is a
\* constant with bit 0 set, and no remaining block contains a Branch whose
\* condition is a constant with bit 0 clear.
C33_DeadCodeLeavesNoDeadInsns ==
    (Called("DeadCode") /\ status = "ok") =>
        \A c \in Range(func.code_list) :
            \A k \in 1..Len(code[c].insns) :
                /\ EndsFlow(insn[code[c].insns[k]]) => k = Len(code[c].insns)
                /\ ~ConstFalseBranch(insn[code[c].insns[k]])

\* The combinators that insert_combinators places for the variable v in
\* block b of the function `pre`.
InsertedFor(v, b) ==
    LET r == insert_combinators(pre, compute_dominance(pre), v).st
    IN {i \in Range(r.code[b].insns) :
           i \notin DOMAIN pre.insn /\ IsCombinator(r.insn[i]) /\ r.insn[i].dest = v}

\* C34: combinators inserted by ToSsa are well-formed: for every original
\* variable v and every block b, ToSsa inserts at most one combinator for v
\* into b (and b holds exactly those after the call); an inserted combinator
\* stands before every non-combinator instruction of b and has exactly one
\* entry for each predecessor of b, with pairwise distinct predecessors.
C34_InsertedCombinatorsWellFormed ==
    ToSsaReturned =>
        \A b \in DOMAIN pre.code :
            /\ \A v \in Range(pre.func.vars_list) : Cardinality(InsertedFor(v, b)) <= 1
            /\ Cardinality(Inserted(b)) =
                   Cardinality({v \in Range(pre.func.vars_list) : InsertedFor(v, b) # {}})
            /\ \A k \in 1..Len(code[b].insns) :
                  code[b].insns[k] \in Inserted(b) =>
                      LET rec == insn[code[b].insns[k]]
                      IN /\ \A j \in 1..(k - 1) : IsCombinator(insn[code[b].insns[j]])
                         /\ Len(rec.prev) = Cardinality(code[b].pred)
                         /\ Range(rec.prev) = code[b].pred
                         /\ Len(rec.ops) = Len(rec.prev)

\* ToSsa inserted a combinator into a block with two predecessors, ahead of
\* the block's other instructions.
C34_Witness ==
    /\ ToSsaReturned
    /\ \E b \in DOMAIN pre.code :
          /\ Inserted(b) # {}
          /\ Cardinality(code[b].pred) >= 2
          /\ Len(code[b].insns) > Cardinality(Inserted(b))

\* The builder operations of a client.
BuilderOps ==
    {"Build", "CreateVariable", "CreateCodeBlock", "AddUnary", "AddBinary", "AddUndefined",
     "AddCombinator", "AddJump", "AddBranch", "AddCallDirect", "AddCallPtr", "AddReturn0",
     "AddReturn1"}

\* Every parameter handle of st refers to a variable of the variable list.
ArgsLive(st) ==
    \A k \in DOMAIN st.func.args :
        st.func.args[k] \in Range(st.func.vars_list) \cap DOMAIN st.var

\* C35: after any sequence of builder operations, ToSsa and Optimize, every
\* parameter handle func.args[i] refers to a variable that is still in
\* func.vars: none of these operations deletes a parameter variable, one with
\* an empty use-set included.
C35_ParametersStayLive ==
    (/\ status = "ok"
     /\ last.call.op \in BuilderOps \cup {"ToSsa", "Optimize"}
     /\ ArgsLive(pre))
        => ArgsLive(St)

\* The entry block of st is live and is the head of the block list.
EntryKept(st) ==
    /\ st.func.entry \in DOMAIN st.code
    /\ st.func.code_list # <<>>
    /\ Head(st.func.code_list) = st.func.entry

\* No block of st holds a Branch: every edge of the CFG is a Jump.
JumpsOnly(st) == \A i \in DOMAIN st.insn : st.insn[i].type # "BRANCH"

\* C36: Optimize never deletes the entry block: after an Optimize call on a
\* builder-constructed function (one whose entry is on a cycle of jumps
\* included) func.entry is still in func.codes and is the head of the block
\* list, and the Branches pass does not splice a block with itself (which
\* frees the block that the pass is working on).
C36_OptimizeKeepsEntry ==
    (Called("Optimize") /\ ops = 1 /\ pre.status = "ok" /\ JumpsOnly(pre)) =>
        /\ status # "ub"
        /\ status = "ok" => EntryKept(St)

\* The blocks of the block list of st.
ListedCodes(st) == Range(st.func.code_list) \cap DOMAIN st.code

\* Every Jump and Branch of a listed block targets a listed block, and every
\* combinator entry names one.
NoDanglingTargets(st) ==
    \A c \in ListedCodes(st) : \A i \in Range(st.code[c].insns) :
        /\ i \in DOMAIN st.insn
        /\ IsJumpOrBranch(st.insn[i]) => st.insn[i].target \in ListedCodes(st)
        /\ IsCombinator(st.insn[i]) => Range(st.insn[i].prev) \subseteq ListedCodes(st)

\* The successor and predecessor sets of st are those of its Jump and Branch
\* instructions, as the builders leave them.
EdgesMatch(st) ==
    \A a \in ListedCodes(st) :
        /\ st.code[a].succ = Targets(st, a, FALSE)
        /\ st.code[a].pred = {b \in ListedCodes(st) : a \in Targets(st, b, FALSE)}

\* No block of st lies on a cycle.
Acyclic(st) == \A c \in DOMAIN st.code : c \notin SuccReach(st, st.code[c].succ, {})

\* C37: no dangling control-flow targets: after builder operations, DeleteBlock
\* and Optimize, the target of every remaining Jump and Branch and the
\* predecessor named by every combinator entry is a block that is still in
\* func.codes; splicing a block whose instruction list holds more than one
\* Jump or Branch to the same successor is included, so Optimize on a function
\* without cycles never follows a target into a freed block.
C37_NoDanglingTargets ==
    (/\ last.call.op \in BuilderOps \cup {"DeleteBlock", "Optimize"}
     /\ pre.status = "ok"
     /\ NoDanglingTargets(pre)
     /\ EdgesMatch(pre))
        => /\ status = "ok" => NoDanglingTargets(St)
           /\ (Called("Optimize") /\ WholeCfg(pre) /\ Acyclic(pre)) => status # "ub"

\* Every instruction in the list of a block of st has that block as parent,
\* stands in the list once, and every instruction stands in the list of
\* exactly one block.
ParentConsistent(st) ==
    /\ \A c \in DOMAIN st.code : \A k \in 1..Len(st.code[c].insns) :
          LET i == st.code[c].insns[k]
          IN /\ i \in DOMAIN st.insn
             /\ st.insn[i].parent = c
             /\ \A j \in 1..Len(st.code[c].insns) : st.code[c].insns[j] = i => j = k
    /\ \A i \in DOMAIN st.insn :
          Cardinality({c \in DOMAIN st.code : i \in Range(st.code[c].insns)}) = 1

\* C38: parent consistency: after builder operations, ToSsa and Optimize,
\* every instruction i in the instruction list of block c has i.parent = c,
\* and every instruction belongs to the list of exactly one block.
C38_ParentConsistency ==
    (/\ status = "ok"
     /\ last.call.op \in BuilderOps \cup {"ToSsa", "Optimize"}
     /\ ParentConsistent(pre))
        => ParentConsistent(St)

\* Optimize spliced blocks: an instruction has a new parent.
C38_Witness ==
    /\ status = "ok"
    /\ Called("Optimize")
    /\ ParentConsistent(pre)
    /\ \E i \in DOMAIN insn \cap DOMAIN pre.insn : insn[i].parent # pre.insn[i].parent

\* C39: ToSsa only reads DomNode records that the DFS from the entry
\* initialized: for every function, one whose block list holds a block that
\* is not reachable from the entry through successor sets included, every node
\* index that compute_dominance and the frontier walk dereference has a
\* non-null code, every predecessor's dfs_index was assigned in this run, and
\* the frontier walk from a predecessor reaches idom[b] before stepping past
\* the entry.
C39_DominanceReadsInitializedNodes ==
    (/\ ToSsaConverted
     /\ EntryKept(pre)
     /\ Range(pre.func.code_list) = DOMAIN pre.code
     /\ NoDanglingTargets(pre)
     /\ EdgesMatch(pre))
        => ~compute_dominance(pre).ub

\* The blocks of st that hold an assignment of v.
DefBlocks(st, v) == {st.insn[e].parent : e \in Range(st.var[v].assigned_at)}

RECURSIVE ReachedUndefined(_, _, _)
\* The blocks that control can enter from the blocks S without having passed a
\* block that assigns v.
ReachedUndefined(st, v, S) ==
    LET T == S \cup UNION {st.code[c].succ \cap DOMAIN st.code : c \in S \ DefBlocks(st, v)}
    IN IF T = S THEN S ELSE ReachedUndefined(st, v, T)

\* The position of instruction i in the list of its block.
PosOf(st, i) ==
    CHOOSE k \in 1..Len(st.code[st.insn[i].parent].insns) :
        st.code[st.insn[i].parent].insns[k] = i

\* Every read of a variable in st is preceded by an assignment of it on every
\* path from the entry.
ReadsDefined(st) ==
    \A v \in Range(st.func.vars_list) : \A i \in OperandReaders(st, v) :
        \/ \E e \in Range(st.var[v].assigned_at) :
              st.insn[e].parent = st.insn[i].parent /\ PosOf(st, e) < PosOf(st, i)
        \/ /\ ~IsCombinator(st.insn[i])
           /\ st.insn[i].parent \notin
                  ReachedUndefined(st, v, {list_head(st.func.code_list)})

\* Each non-combinator read of a variable x of st stands in a block that the
\* block of x's single assignment dominates, after the assignment when in
\* the same block.
ReadsDominated(st) ==
    \A x \in Range(st.func.vars_list) : \A i \in OperandReaders(st, x) :
        ~IsCombinator(st.insn[i]) =>
            /\ Len(st.var[x].assigned_at) = 1
            /\ LET e == st.var[x].assigned_at[1]
               IN /\ Dominates(st, st.insn[e].parent, st.insn[i].parent)
                  /\ st.insn[e].parent = st.insn[i].parent => PosOf(st, e) < PosOf(st, i)

\* C40: SSA dominance: after ToSsa on a function in which every block is
\* reachable and every read of a variable is preceded by an assignment on every
\* path from the entry, each non-combinator read of a variable x occurs in a
\* block dominated by the block of x's single assignment (after that
\* assignment when in the same block), for every CFG shape, loops through
\* which the usesVar search passes included.
C40_SsaDominance ==
    (/\ ToSsaReturned
     /\ WholeCfg(pre)
     /\ ParentConsistent(pre)
     /\ ReadsDefined(pre))
        => ReadsDominated(St)

====
